---- MODULE Spec2Model ----
(***************************************************************************)
(* A model of the editing commands of prosemirror-commands                 *)
(* (src/src/commands.js).  The editor state is an immutable document tree  *)
(* plus a selection; a command is a function of the state, an optional     *)
(* dispatch callback and an optional view, which returns a boolean and     *)
(* hands at most one transaction to dispatch.                              *)
(*                                                                         *)
(* The document model, the content-match automata and the transform steps  *)
(* the commands call (prosemirror-model, prosemirror-transform and         *)
(* prosemirror-state, imported at commands.js:1-3) are modelled by what    *)
(* they compute: integer positions, resolved positions with their path,    *)
(* the replace algorithm, ReplaceStep and ReplaceAroundStep.               *)
(*                                                                         *)
(* Text is held one character per node: a text node of n characters is n   *)
(* adjacent leaves of size 1, which leaves every position, node size and   *)
(* block-level index of the original unchanged.                            *)
(***************************************************************************)
EXTENDS Integers, Sequences, FiniteSets, TLC

\* ------------------------------------------------------------------------
\* Calls
\* ------------------------------------------------------------------------

\* The functions of the modelled modules call one another, and themselves, by
\* name.  f_(x) is the call f(x) of the function f defined below: invoke
\* evaluates the function of the name it is given on the arguments it is
\* given (0 where the function takes fewer).
RECURSIVE invoke(_, _, _, _, _, _, _)

ExpandEdges_(e, specs) == invoke("ExpandEdges", e, specs, 0, 0, 0, 0)
Edges_(m) == invoke("Edges", m, 0, 0, 0, 0, 0)
findIndex_(f, pos) == invoke("findIndex", f, pos, 0, 0, 0, 0)
resolvePath_(node, parentOffset, start) == invoke("resolvePath", node, parentOffset, start, 0, 0, 0)
resolve_(doc, pos) == invoke("resolve", doc, pos, 0, 0, 0, 0)
nodeAfter_(rp) == invoke("nodeAfter", rp, 0, 0, 0, 0, 0)
nodeBefore_(rp) == invoke("nodeBefore", rp, 0, 0, 0, 0, 0)
sharedDepthFrom_(rp, pos, d) == invoke("sharedDepthFrom", rp, pos, d, 0, 0, 0)
sharedDepth_(rp, pos) == invoke("sharedDepth", rp, pos, 0, 0, 0, 0)
sameParent_(rp, other) == invoke("sameParent", rp, other, 0, 0, 0, 0)
matchType_(m, t) == invoke("matchType", m, t, 0, 0, 0, 0)
matchFragment_(m, frag, start, end) == invoke("matchFragment", m, frag, start, end, 0, 0)
contentMatchAt_(n, index) == invoke("contentMatchAt", n, index, 0, 0, 0, 0)
canReplace_(n, from, to, replacement) == invoke("canReplace", n, from, to, replacement, 0, 0)
canReplaceWith_(n, from, to, t) == invoke("canReplaceWith", n, from, to, t, 0, 0)
compatible_(m1, m2) == invoke("compatible", m1, m2, 0, 0, 0, 0)
compatibleContent_(t1, t2) == invoke("compatibleContent", t1, t2, 0, 0, 0, 0)
defaultType_(m) == invoke("defaultType", m, 0, 0, 0, 0, 0)
defaultContentType_(n, index) == invoke("defaultContentType", n, index, 0, 0, 0, 0)
pushWrappers_(edges, i, cur, active, seen) == invoke("pushWrappers", edges, i, cur, active, seen, 0)
computeWrapping_(active, seen, target) == invoke("computeWrapping", active, seen, target, 0, 0, 0)
matchFindWrapping_(m, target) == invoke("matchFindWrapping", m, target, 0, 0, 0, 0)
cutFrom_(f, from, to, i, pos) == invoke("cutFrom", f, from, to, i, pos, 0)
fragCut_(f, from, to) == invoke("fragCut", f, from, to, 0, 0, 0)
close_(n, c) == invoke("close", n, c, 0, 0, 0, 0)
joinable_(rb, ra, d) == invoke("joinable", rb, ra, d, 0, 0, 0)
replaceTwoWay_(rf, rt, d) == invoke("replaceTwoWay", rf, rt, d, 0, 0, 0)
replaceThreeWay_(rf, rs, re, rt, d) == invoke("replaceThreeWay", rf, rs, re, rt, d, 0)
prepareSliceForReplace_(slice, ra) == invoke("prepareSliceForReplace", slice, ra, 0, 0, 0, 0)
replaceOuter_(rf, rt, slice, d) == invoke("replaceOuter", rf, rt, slice, d, 0, 0)
replace_(doc, from, to, slice) == invoke("replace", doc, from, to, slice, 0, 0)
NodeSelection_(doc, from) == invoke("NodeSelection", doc, from, 0, 0, 0, 0)
findSelectionIn_(doc, node, pos, index, dir) == invoke("findSelectionIn", doc, node, pos, index, dir, 0)
findSelectionLoop_(doc, node, pos, i, dir) == invoke("findSelectionLoop", doc, node, pos, i, dir, 0)
findFromUp_(doc, rp, depth, dir) == invoke("findFromUp", doc, rp, depth, dir, 0, 0)
findFrom_(doc, rp, dir) == invoke("findFrom", doc, rp, dir, 0, 0, 0)
near_(doc, rp, bias) == invoke("near", doc, rp, bias, 0, 0, 0)
mapRanges_(ranges, i, diff, pos, assoc) == invoke("mapRanges", ranges, i, diff, pos, assoc, 0)
mapThrough_(maps, from, pos, assoc, deleted) == invoke("mapThrough", maps, from, pos, assoc, deleted, 0)
mappingMap_(tr, pos) == invoke("mappingMap", tr, pos, 0, 0, 0, 0)
mapSelection_(sel, doc, maps, from) == invoke("mapSelection", sel, doc, maps, from, 0, 0)
contentBetween_(doc, from, to) == invoke("contentBetween", doc, from, to, 0, 0, 0)
insertInto_(content, dist, insert) == invoke("insertInto", content, dist, insert, 0, 0, 0)
removeMarkIn_(f, from, to, mark, pos) == invoke("removeMarkIn", f, from, to, mark, pos, 0)
addMarkIn_(f, parentType, from, to, mark, pos) == invoke("addMarkIn", f, parentType, from, to, mark, pos)
applyStep_(doc, st) == invoke("applyStep", doc, st, 0, 0, 0, 0)
trStep_(tr, st) == invoke("trStep", tr, st, 0, 0, 0, 0)
trSelection_(tr) == invoke("trSelection", tr, 0, 0, 0, 0, 0)
applyTr_(state, tr) == invoke("applyTr", state, tr, 0, 0, 0, 0)
fillSearch_(m, types, seen, after, startIndex) == invoke("fillSearch", m, types, seen, after, startIndex, 0)
fillEdges_(edges, i, types, seen, after, startIndex) == invoke("fillEdges", edges, i, types, seen, after, startIndex)
createAndFill_(t) == invoke("createAndFill", t, 0, 0, 0, 0, 0)
fillBefore_(m, after, startIndex) == invoke("fillBefore", m, after, startIndex, 0, 0, 0)
fitsTrivially_(rf, rt) == invoke("fitsTrivially", rf, rt, 0, 0, 0, 0)
trDelete_(tr, from, to) == invoke("trDelete", tr, from, to, 0, 0, 0)
trJoin_(tr, pos) == invoke("trJoin", tr, pos, 0, 0, 0, 0)
canAppend_(a, b) == invoke("canAppend", a, b, 0, 0, 0, 0)
canJoin_(doc, pos) == invoke("canJoin", doc, pos, 0, 0, 0, 0)
blockRangeFrom_(rf, rt, d) == invoke("blockRangeFrom", rf, rt, d, 0, 0, 0)
blockRange_(doc, p1, p2) == invoke("blockRange", doc, p1, p2, 0, 0, 0)
canCut_(n, start, end) == invoke("canCut", n, start, end, 0, 0, 0)
liftTargetFrom_(rf, rt, rdepth, content, depth) == invoke("liftTargetFrom", rf, rt, rdepth, content, depth, 0)
liftTarget_(doc, range) == invoke("liftTarget", doc, range, 0, 0, 0, 0)
liftBefore_(rf, d, target, acc) == invoke("liftBefore", rf, d, target, acc, 0, 0)
liftAfter_(rt, d, target, acc) == invoke("liftAfter", rt, d, target, acc, 0, 0)
trLift_(tr, range, target) == invoke("trLift", tr, range, target, 0, 0, 0)
clearScan_(node, i, cur, parentType, match, acc) == invoke("clearScan", node, i, cur, parentType, match, acc)
trSteps_(tr, steps) == invoke("trSteps", tr, steps, 0, 0, 0, 0)
clearNonMatching_(tr, pos, parentType, match) == invoke("clearNonMatching", tr, pos, parentType, match, 0, 0)
joinMaybeClear_(state, pos, dispatch) == invoke("joinMaybeClear", state, pos, dispatch, 0, 0, 0)
wrapApplies_(state, cut) == invoke("wrapApplies", state, cut, 0, 0, 0, 0)
wrapTr_(state, cut) == invoke("wrapTr", state, cut, 0, 0, 0, 0)
liftRange_(state, cut) == invoke("liftRange", state, cut, 0, 0, 0, 0)
liftTargetAfter_(state, cut) == invoke("liftTargetAfter", state, cut, 0, 0, 0, 0)
liftApplies_(state, cut) == invoke("liftApplies", state, cut, 0, 0, 0, 0)
liftTr_(state, cut) == invoke("liftTr", state, cut, 0, 0, 0, 0)
deleteBarrier_(state, cut, dispatch) == invoke("deleteBarrier", state, cut, dispatch, 0, 0, 0)
findCutBefore_(rp) == invoke("findCutBefore", rp, 0, 0, 0, 0, 0)
findCutAfterFrom_(rp, i) == invoke("findCutAfterFrom", rp, i, 0, 0, 0, 0)
findCutAfter_(rp) == invoke("findCutAfter", rp, 0, 0, 0, 0, 0)
notAtStart_(state, view) == invoke("notAtStart", state, view, 0, 0, 0, 0)
notAtEnd_(state, view) == invoke("notAtEnd", state, view, 0, 0, 0, 0)
joinBackward_(state, dispatch, view) == invoke("joinBackward", state, dispatch, view, 0, 0, 0)
selectNodeBackward_(state, dispatch, view) == invoke("selectNodeBackward", state, dispatch, view, 0, 0, 0)
joinForward_(state, dispatch, view) == invoke("joinForward", state, dispatch, view, 0, 0, 0)
selectNodeForward_(state, dispatch, view) == invoke("selectNodeForward", state, dispatch, view, 0, 0, 0)
coveredFrom_(rf, rt, d) == invoke("coveredFrom", rf, rt, d, 0, 0, 0)
coveredDepths_(rf, rt) == invoke("coveredDepths", rf, rt, 0, 0, 0, 0)
deleteCovered_(tr, rf, rt, covered, i) == invoke("deleteCovered", tr, rf, rt, covered, i, 0)
deleteRange_(tr, from, to) == invoke("deleteRange", tr, from, to, 0, 0, 0)
trDeleteSelection_(tr) == invoke("trDeleteSelection", tr, 0, 0, 0, 0, 0)
deleteSelection_(state, dispatch) == invoke("deleteSelection", state, dispatch, 0, 0, 0, 0)
joinPointFrom_(doc, rp, pos, dir, d) == invoke("joinPointFrom", doc, rp, pos, dir, d, 0)
joinPoint_(doc, pos, dir) == invoke("joinPoint", doc, pos, dir, 0, 0, 0)
selNode_(state) == invoke("selNode", state, 0, 0, 0, 0, 0)
joinUp_(state, dispatch) == invoke("joinUp", state, dispatch, 0, 0, 0, 0)
joinDown_(state, dispatch) == invoke("joinDown", state, dispatch, 0, 0, 0, 0)
lift_(state, dispatch) == invoke("lift", state, dispatch, 0, 0, 0, 0)
validContent_(t, f) == invoke("validContent", t, f, 0, 0, 0, 0)
canSplit_(doc, pos, typeAfter) == invoke("canSplit", doc, pos, typeAfter, 0, 0, 0)
trSplit_(tr, pos, typeAfter) == invoke("trSplit", tr, pos, typeAfter, 0, 0, 0)
liftEmptyBlock_(state, dispatch) == invoke("liftEmptyBlock", state, dispatch, 0, 0, 0, 0)
selectParentNode_(state, dispatch) == invoke("selectParentNode", state, dispatch, 0, 0, 0, 0)
marksAt_(rp) == invoke("marksAt", rp, 0, 0, 0, 0, 0)
marksAcross_(rp) == invoke("marksAcross", rp, 0, 0, 0, 0, 0)
trReplaceWith_(tr, from, to, node) == invoke("trReplaceWith", tr, from, to, node, 0, 0)
insertText_(tr, ch) == invoke("insertText", tr, ch, 0, 0, 0, 0)
setNodeType_(tr, pos, t) == invoke("setNodeType", tr, pos, t, 0, 0, 0)
newlineInCode_(state, dispatch) == invoke("newlineInCode", state, dispatch, 0, 0, 0, 0)
exitCode_(state, dispatch) == invoke("exitCode", state, dispatch, 0, 0, 0, 0)
createParagraphNear_(state, dispatch) == invoke("createParagraphNear", state, dispatch, 0, 0, 0, 0)
splitBlock_(state, dispatch) == invoke("splitBlock", state, dispatch, 0, 0, 0, 0)
ensureMarks_(tr, ms) == invoke("ensureMarks", tr, ms, 0, 0, 0, 0)
splitBlockKeepMarks_(state, dispatch) == invoke("splitBlockKeepMarks", state, dispatch, 0, 0, 0, 0)
findWrappingOutside_(doc, range, t) == invoke("findWrappingOutside", doc, range, t, 0, 0, 0)
matchChildren_(m, parent, i, endIndex) == invoke("matchChildren", m, parent, i, endIndex, 0, 0)
findWrappingInside_(doc, range, t) == invoke("findWrappingInside", doc, range, t, 0, 0, 0)
findWrapping_(doc, range, t) == invoke("findWrapping", doc, range, t, 0, 0, 0)
trWrap_(tr, range, wrappers) == invoke("trWrap", tr, range, wrappers, 0, 0, 0)
wrapIn_(nodeType, state, dispatch) == invoke("wrapIn", nodeType, state, dispatch, 0, 0, 0)
setBlockType_(nodeType, state, dispatch) == invoke("setBlockType", nodeType, state, dispatch, 0, 0, 0)
inlineBetween_(f, pos, parentType, from, to) == invoke("inlineBetween", f, pos, parentType, from, to, 0)
takesMarkBetween_(f, pos, from, to, mk) == invoke("takesMarkBetween", f, pos, from, to, mk, 0)
markApplies_(doc, from, to, mk) == invoke("markApplies", doc, from, to, mk, 0, 0)
rangeHasMark_(doc, from, to, mk) == invoke("rangeHasMark", doc, from, to, mk, 0, 0)
addMarkSteps_(nodes, from, to, mk, acc) == invoke("addMarkSteps", nodes, from, to, mk, acc, 0)
trAddMark_(tr, from, to, mk) == invoke("trAddMark", tr, from, to, mk, 0, 0)
removeMarkSteps_(nodes, from, to, mk, running, acc) == invoke("removeMarkSteps", nodes, from, to, mk, running, acc)
trRemoveMark_(tr, from, to, mk) == invoke("trRemoveMark", tr, from, to, mk, 0, 0)
addStoredMark_(tr, mk) == invoke("addStoredMark", tr, mk, 0, 0, 0, 0)
removeStoredMark_(tr, mk) == invoke("removeStoredMark", tr, mk, 0, 0, 0, 0)
toggleMark_(markType, state, dispatch) == invoke("toggleMark", markType, state, dispatch, 0, 0, 0)
changedRanges_(maps, i, ranges) == invoke("changedRanges", maps, i, ranges, 0, 0, 0)
joinableIn_(parent, index, pos, to, types, acc) == invoke("joinableIn", parent, index, pos, to, types, acc)
joinablePoints_(doc, ranges, i, types, acc) == invoke("joinablePoints", doc, ranges, i, types, acc, 0)
joinPoints_(tr, points) == invoke("joinPoints", tr, points, 0, 0, 0, 0)
wrapDispatchForJoin_(tr, types) == invoke("wrapDispatchForJoin", tr, types, 0, 0, 0, 0)
autoJoin_(r, types) == invoke("autoJoin", r, types, 0, 0, 0, 0)
run_(c, state, dispatch, view) == invoke("run", c, state, dispatch, view, 0, 0)
chainFrom_(commands, i, state, dispatch, view, acc) == invoke("chainFrom", commands, i, state, dispatch, view, acc)
chainCommands_(commands, state, dispatch, view) == invoke("chainCommands", commands, state, dispatch, view, 0, 0)
call_(c, state, dispatch, view) == invoke("call", c, state, dispatch, view, 0, 0)
StartSelections_(doc) == invoke("StartSelections", doc, 0, 0, 0, 0, 0)

\* ------------------------------------------------------------------------
\* Schema: the node types of the schema the commands' tests run against
\* (basic schema plus list nodes), "aside", an isolating block container,
\* and "hdoc" and "hheading", the top node "heading block*" and the heading
\* outside the block group of the second schema of the splitBlock tests,
\* and "tdoc" and "title", a top node "title block*" whose title is an
\* isolating textblock.
\* ------------------------------------------------------------------------

\* The node types, in the order the schema declares them.
TypeOrder ==
  << "doc", "paragraph", "blockquote", "horizontal_rule", "heading",
     "code_block", "text", "image", "hard_break",
     "ordered_list", "bullet_list", "list_item", "aside", "hdoc", "hheading",
     "tdoc", "title" >>

NodeTypes == { TypeOrder[i] : i \in 1..Len(TypeOrder) }

\* Members of the groups named in content expressions, in schema order.
GroupMembers(g) ==
  CASE g = "block"  -> << "paragraph", "blockquote", "horizontal_rule", "heading",
                          "code_block", "ordered_list", "bullet_list", "aside" >>
    [] g = "inline" -> << "text", "image", "hard_break" >>
    [] OTHER        -> << g >>

\* The content expression of each node type.
ContentExpr(t) ==
  CASE t \in {"doc", "blockquote", "aside"}    -> "block+"
    [] t \in {"paragraph", "heading", "hheading", "title"} -> "inline*"
    [] t = "code_block"                        -> "text*"
    [] t \in {"ordered_list", "bullet_list"}   -> "list_item+"
    [] t = "list_item"                         -> "paragraph block*"
    [] t = "hdoc"                              -> "hheading block*"
    [] t = "tdoc"                              -> "title block*"
    [] OTHER                                   -> ""

\* A content match is a state of the automaton of a content expression.
Match(e, s) == [expr |-> e, st |-> s]

\* The outgoing edges of a match, in order: <<group or type name, next state>>.
EdgeSpec(m) ==
  CASE m.expr = "block+"                        -> << <<"block", 1>> >>
    [] m.expr = "inline*"                       -> << <<"inline", 0>> >>
    [] m.expr = "text*"                         -> << <<"text", 0>> >>
    [] m.expr = "list_item+"                    -> << <<"list_item", 1>> >>
    [] m.expr = "paragraph block*" /\ m.st = 0  -> << <<"paragraph", 1>> >>
    [] m.expr = "paragraph block*" /\ m.st = 1  -> << <<"block", 1>> >>
    [] m.expr = "hheading block*" /\ m.st = 0   -> << <<"hheading", 1>> >>
    [] m.expr = "hheading block*" /\ m.st = 1   -> << <<"block", 1>> >>
    [] m.expr = "title block*" /\ m.st = 0      -> << <<"title", 1>> >>
    [] m.expr = "title block*" /\ m.st = 1      -> << <<"block", 1>> >>
    [] OTHER                                    -> << >>

ExpandEdges(e, specs) ==
  IF specs = << >> THEN << >>
  ELSE LET g == GroupMembers(Head(specs)[1])
       IN  [i \in 1..Len(g) |-> [type |-> g[i], next |-> Match(e, Head(specs)[2])]]
           \o ExpandEdges_(e, Tail(specs))

\* match.next: the edges of a match with groups expanded to node types.
Edges(m) == ExpandEdges_(m.expr, EdgeSpec(m))

\* match.validEnd
validEnd(m) ==
  CASE m.expr \in {"block+", "list_item+", "paragraph block*", "hheading block*",
                   "title block*"} -> m.st = 1
    [] OTHER -> TRUE

\* type.contentMatch: the start state of the type's content expression.
contentMatch(t) == Match(ContentExpr(t), 0)

isText(t)        == t = "text"
isLeaf(t)        == ContentExpr(t) = ""
isInline(t)      == t \in {"text", "image", "hard_break"}
isBlock(t)       == ~isInline(t)
inlineContent(t) == ContentExpr(t) \in {"inline*", "text*"}
isTextblock(t)   == isBlock(t) /\ inlineContent(t)
\* type.isAtom: a leaf, or a type whose spec sets atom (none does here).
isAtom(t)        == isLeaf(t)
\* spec.isolating
isolating(t)     == t \in {"aside", "title"}
\* spec.code
isCode(t)        == t = "code_block"
\* type.hasRequiredAttrs(): image requires src.
hasRequiredAttrs(t) == t = "image"
\* NodeSelection.isSelectable: not text, and spec.selectable is not false.
isSelectableType(t) == ~isText(t)

\* ------------------------------------------------------------------------
\* Nodes and fragments
\* ------------------------------------------------------------------------

\* A node: its type, its attribute (the heading level, 0 elsewhere), its
\* children, and for a text leaf its character and marks.
\* fragment.size, from the sizes the nodes hold.
RECURSIVE fragSize(_)
fragSize(f) == IF f = << >> THEN 0 ELSE Head(f).size + fragSize(Tail(f))

\* A node holds its size, as a fragment does in the source: 1 for a leaf,
\* else 2 plus the size of the content.
MkNode(t, lvl, c) ==
  [type |-> t, level |-> lvl, content |-> c, ch |-> "", marks |-> {},
   size |-> IF isLeaf(t) THEN 1 ELSE 2 + fragSize(c)]
MkText(c, ms) ==
  [type |-> "text", level |-> 0, content |-> << >>, ch |-> c, marks |-> ms, size |-> 1]

\* node.nodeSize
nodeSize(n) == n.size

\* node.copy(content)
copy(n, c) ==
  [n EXCEPT !.content = c, !.size = IF isLeaf(n.type) THEN 1 ELSE 2 + fragSize(c)]

\* node.child(i), with the 0-based indices of the source.
child(n, i) == n.content[i + 1]
childCount(n) == Len(n.content)

\* fragment.cutByIndex(from, to)
cutByIndex(f, from, to) == SubSeq(f, from + 1, to)

\* fragment.replaceChild(index, node)
replaceChild(f, i, n) == [f EXCEPT ![i + 1] = n]

\* fragment.findIndex(pos): the child index and offset at or before pos.
RECURSIVE findIndexFrom(_, _, _, _)
findIndexFrom(f, pos, i, curPos) ==
  LET end == curPos + nodeSize(f[i + 1])
  IN  IF end >= pos
      THEN IF end = pos THEN [index |-> i + 1, offset |-> end]
                        ELSE [index |-> i, offset |-> curPos]
      ELSE findIndexFrom(f, pos, i + 1, end)

findIndex(f, pos) ==
  IF pos = 0 THEN [index |-> 0, offset |-> 0]
  ELSE IF pos = fragSize(f) THEN [index |-> Len(f), offset |-> pos]
  ELSE findIndexFrom(f, pos, 0, 0)

\* ------------------------------------------------------------------------
\* Resolved positions
\* ------------------------------------------------------------------------

\* ResolvedPos.resolve: the path holds, per depth, the ancestor node, the
\* index into it and the position before the child at that index.
resolvePath(node, parentOffset, start) ==
  LET fi    == findIndex_(node.content, parentOffset)
      rem   == parentOffset - fi.offset
      entry == [node |-> node, index |-> fi.index, offset |-> start + fi.offset]
  IN  IF rem = 0 THEN << entry >>
      ELSE << entry >> \o resolvePath_(child(node, fi.index), rem - 1, start + fi.offset + 1)

resolve(doc, pos) ==
  LET path == resolvePath_(doc, pos, 0)
  IN  [pos |-> pos, path |-> path, depth |-> Len(path) - 1]

\* resolveDepth: a negative depth counts back from the position's depth.
resolveDepth(rp, d) == IF d < 0 THEN rp.depth + d ELSE d

nodeAt(rp, d)   == rp.path[resolveDepth(rp, d) + 1].node
indexAt(rp, d)  == rp.path[resolveDepth(rp, d) + 1].index
parentOf(rp)    == nodeAt(rp, rp.depth)
startAt(rp, d)  == LET dd == resolveDepth(rp, d) IN IF dd = 0 THEN 0 ELSE rp.path[dd].offset + 1
endAt(rp, d)    == startAt(rp, d) + fragSize(nodeAt(rp, d).content)
\* $pos.before(d) and $pos.after(d), defined for depth d > 0; at the depth
\* below the position's own they are the position itself.
beforeAt(rp, d) ==
  IF resolveDepth(rp, d) = rp.depth + 1 THEN rp.pos ELSE rp.path[resolveDepth(rp, d)].offset
afterAt(rp, d)  ==
  IF resolveDepth(rp, d) = rp.depth + 1 THEN rp.pos
  ELSE rp.path[resolveDepth(rp, d)].offset + nodeSize(nodeAt(rp, d))
parentOffset(rp) == rp.pos - startAt(rp, rp.depth)
\* $pos.textOffset is 0 everywhere: no position lies inside a leaf.
indexAfterAt(rp, d) ==
  indexAt(rp, d) + (IF resolveDepth(rp, d) = rp.depth THEN 0 ELSE 1)

\* The absent node (null) of nodeBefore, nodeAfter and maybeChild.
NoNode ==
  [type |-> "null", level |-> 0, content |-> << >>, ch |-> "", marks |-> {}, size |-> 1]

nodeAfter(rp) ==
  LET p == parentOf(rp) i == indexAt(rp, rp.depth)
  IN  IF i = childCount(p) THEN NoNode ELSE child(p, i)

nodeBefore(rp) ==
  LET i == indexAt(rp, rp.depth)
  IN  IF i = 0 THEN NoNode ELSE child(parentOf(rp), i - 1)

\* $pos.sharedDepth(pos)
sharedDepthFrom(rp, pos, d) ==
  IF d <= 0 THEN 0
  ELSE IF startAt(rp, d) <= pos /\ endAt(rp, d) >= pos THEN d
  ELSE sharedDepthFrom_(rp, pos, d - 1)

sharedDepth(rp, pos) == sharedDepthFrom_(rp, pos, rp.depth)

\* $pos.sameParent(other)
sameParent(rp, other) == rp.pos - parentOffset(rp) = other.pos - parentOffset(other)

\* ------------------------------------------------------------------------
\* Content matching
\* ------------------------------------------------------------------------

\* The failed match (null).
NoMatch == [expr |-> "none", st |-> 0]

\* match.matchType(type): the match after a node of that type, or null.
RECURSIVE matchTypeIn(_, _, _)
matchTypeIn(edges, i, t) ==
  IF i > Len(edges) THEN NoMatch
  ELSE IF edges[i].type = t THEN edges[i].next
  ELSE matchTypeIn(edges, i + 1, t)

matchType(m, t) == IF m = NoMatch THEN NoMatch ELSE matchTypeIn(Edges_(m), 1, t)

\* match.matchFragment(frag, start, end), with 0-based child indices.
matchFragment(m, frag, start, end) ==
  IF m = NoMatch \/ start >= end THEN m
  ELSE matchFragment_(matchType_(m, frag[start + 1].type), frag, start + 1, end)

\* node.contentMatchAt(index)
contentMatchAt(n, index) == matchFragment_(contentMatch(n.type), n.content, 0, index)

\* type.allowsMarks(marks): only code_block (marks: "") excludes marks among
\* the textblocks; a node without inline content holds unmarked children.
allowsMarks(t, ms) == IF inlineContent(t) /\ t # "code_block" THEN TRUE ELSE ms = {}

\* type.allowsMarkType(markType)
allowsMarkType(t, mk) == inlineContent(t) /\ t # "code_block"

\* node.canReplace(from, to, replacement)
canReplace(n, from, to, replacement) ==
  LET one == matchFragment_(contentMatchAt_(n, from), replacement, 0, Len(replacement))
      two == matchFragment_(one, n.content, to, childCount(n))
  IN  /\ two # NoMatch
      /\ validEnd(two)
      /\ \A i \in 1..Len(replacement) : allowsMarks(n.type, replacement[i].marks)

\* node.canReplaceWith(from, to, type)
canReplaceWith(n, from, to, t) ==
  LET start == matchType_(contentMatchAt_(n, from), t)
      end   == matchFragment_(start, n.content, to, childCount(n))
  IN  end # NoMatch /\ validEnd(end)

\* match.compatible(other): the two matches share a next node type.
compatible(m1, m2) ==
  \E i \in 1..Len(Edges_(m1)) : \E j \in 1..Len(Edges_(m2)) :
     Edges_(m1)[i].type = Edges_(m2)[j].type

\* type.compatibleContent(other)
compatibleContent(t1, t2) == t1 = t2 \/ compatible_(contentMatch(t1), contentMatch(t2))

\* match.defaultType: the first next type that can be generated.
RECURSIVE defaultTypeIn(_, _)
defaultTypeIn(edges, i) ==
  IF i > Len(edges) THEN "null"
  ELSE IF ~(isText(edges[i].type) \/ hasRequiredAttrs(edges[i].type)) THEN edges[i].type
  ELSE defaultTypeIn(edges, i + 1)

defaultType(m) == defaultTypeIn(Edges_(m), 1)

\* node.defaultContentType(index)
defaultContentType(n, index) == defaultType_(contentMatchAt_(n, index))

\* match.findWrapping(target): breadth-first search for the shortest chain
\* of wrapper types; found is FALSE for null, conn may be empty.
pushWrappers(edges, i, cur, active, seen) ==
  IF i > Len(edges) THEN [active |-> active, seen |-> seen]
  ELSE LET t == edges[i].type
       IN  IF /\ ~isLeaf(t)
              /\ ~hasRequiredAttrs(t)
              /\ t \notin seen
              /\ (cur.chain = << >> \/ validEnd(edges[i].next))
           THEN pushWrappers_(edges, i + 1, cur,
                             Append(active, [match |-> contentMatch(t), chain |-> Append(cur.chain, t)]),
                             seen \cup {t})
           ELSE pushWrappers_(edges, i + 1, cur, active, seen)

computeWrapping(active, seen, target) ==
  IF active = << >> THEN [found |-> FALSE, conn |-> << >>]
  ELSE LET cur == Head(active)
       IN  IF matchType_(cur.match, target) # NoMatch
           THEN [found |-> TRUE, conn |-> cur.chain]
           ELSE LET r == pushWrappers_(Edges_(cur.match), 1, cur, Tail(active), seen)
                IN  computeWrapping_(r.active, r.seen, target)

matchFindWrapping(m, target) ==
  computeWrapping_(<< [match |-> m, chain |-> << >>] >>, {}, target)

\* The document satisfies its schema: node.check() on every node.
RECURSIVE checkNode(_)
checkNode(n) ==
  LET m == matchFragment_(contentMatch(n.type), n.content, 0, childCount(n))
  IN  /\ m # NoMatch
      /\ validEnd(m)
      /\ \A i \in 1..Len(n.content) :
            /\ allowsMarks(n.type, n.content[i].marks)
            /\ checkNode(n.content[i])

\* ------------------------------------------------------------------------
\* Slices and the replace algorithm of the document model
\* ------------------------------------------------------------------------

\* fragment.cut(from, to) and node.cut(from, to)
cutFrom(f, from, to, i, pos) ==
  IF i > Len(f) \/ pos >= to THEN << >>
  ELSE LET c   == f[i]
           end == pos + nodeSize(c)
           lo  == IF from - pos - 1 > 0 THEN from - pos - 1 ELSE 0
           hi  == IF fragSize(c.content) < to - pos - 1 THEN fragSize(c.content) ELSE to - pos - 1
       IN  IF end > from
           THEN << IF pos < from \/ end > to
                   THEN copy(c, cutFrom_(c.content, lo, hi, 1, 0))
                   ELSE c >> \o cutFrom_(f, from, to, i + 1, end)
           ELSE cutFrom_(f, from, to, i + 1, end)

fragCut(f, from, to) ==
  IF from = 0 /\ to = fragSize(f) THEN f
  ELSE IF to > from THEN cutFrom_(f, from, to, 1, 0)
  ELSE << >>

Slice(c, os, oe) == [content |-> c, openStart |-> os, openEnd |-> oe]
SliceEmpty == Slice(<< >>, 0, 0)

\* The node a failed step leaves behind: it fits no content expression, so
\* a document holding it is not valid.
ErrorNode ==
  [type |-> "error", level |-> 0, content |-> << >>, ch |-> "", marks |-> {}, size |-> 1]

\* close(node, content) of replace.js; checkContent is left to checkNode,
\* which rejects the resulting document when the content does not fit.
close(n, c) == IF n = ErrorNode THEN ErrorNode ELSE copy(n, c)

\* joinable($before, $after, depth): the node to join onto, after checkJoin.
joinable(rb, ra, d) ==
  IF compatibleContent_(nodeAt(ra, d).type, nodeAt(rb, d).type) THEN nodeAt(rb, d) ELSE ErrorNode

\* addRange(null, $end, depth), addRange($start, null, depth) and
\* addRange($start, $end, depth)
addRangeTo(re, d) == cutByIndex(nodeAt(re, d).content, 0, indexAt(re, d))

startIndexOf(rs, d) == indexAt(rs, d) + (IF rs.depth > d THEN 1 ELSE 0)

addRangeFrom(rs, d) ==
  cutByIndex(nodeAt(rs, d).content, startIndexOf(rs, d), childCount(nodeAt(rs, d)))

addRangeBetween(rs, re, d) ==
  cutByIndex(nodeAt(re, d).content, startIndexOf(rs, d), indexAt(re, d))

replaceTwoWay(rf, rt, d) ==
  addRangeTo(rf, d)
  \o (IF rf.depth > d
      THEN << close_(joinable_(rf, rt, d + 1), replaceTwoWay_(rf, rt, d + 1)) >>
      ELSE << >>)
  \o addRangeFrom(rt, d)

replaceThreeWay(rf, rs, re, rt, d) ==
  LET openStart == rf.depth > d
      openEnd   == rt.depth > d
      nStart    == joinable_(rf, rs, d + 1)
      nEnd      == joinable_(re, rt, d + 1)
  IN  addRangeTo(rf, d)
      \o (IF openStart /\ openEnd /\ indexAt(rs, d) = indexAt(re, d)
          THEN << close_(IF compatibleContent_(nEnd.type, nStart.type) /\ nEnd # ErrorNode
                        THEN nStart ELSE ErrorNode,
                        replaceThreeWay_(rf, rs, re, rt, d + 1)) >>
          ELSE (IF openStart THEN << close_(nStart, replaceTwoWay_(rf, rs, d + 1)) >> ELSE << >>)
               \o addRangeBetween(rs, re, d)
               \o (IF openEnd THEN << close_(nEnd, replaceTwoWay_(re, rt, d + 1)) >> ELSE << >>))
      \o addRangeFrom(rt, d)

\* prepareSliceForReplace(slice, $along): the slice wrapped in copies of the
\* ancestors of $along, with the positions of its open start and end.
RECURSIVE wrapAlong(_, _, _)
wrapAlong(node, ra, i) ==
  IF i < 0 THEN node ELSE wrapAlong(copy(nodeAt(ra, i), << node >>), ra, i - 1)

prepareSliceForReplace(slice, ra) ==
  LET extra == ra.depth - slice.openStart
      node  == wrapAlong(copy(nodeAt(ra, extra), slice.content), ra, extra - 1)
  IN  [start |-> resolve_(node, slice.openStart + extra),
       end   |-> resolve_(node, fragSize(node.content) - slice.openEnd - extra)]

replaceOuter(rf, rt, slice, d) ==
  LET index == indexAt(rf, d)
      node  == nodeAt(rf, d)
  IN  IF index = indexAt(rt, d) /\ d < rf.depth - slice.openStart
      THEN copy(node, replaceChild(node.content, index, replaceOuter_(rf, rt, slice, d + 1)))
      ELSE IF fragSize(slice.content) = 0
      THEN close_(node, replaceTwoWay_(rf, rt, d))
      ELSE IF slice.openStart = 0 /\ slice.openEnd = 0 /\ rf.depth = d /\ rt.depth = d
      THEN LET c == parentOf(rf).content
           IN  close_(parentOf(rf),
                     fragCut_(c, 0, parentOffset(rf)) \o slice.content
                       \o fragCut_(c, parentOffset(rt), fragSize(c)))
      ELSE LET pr == prepareSliceForReplace_(slice, rf)
           IN  close_(node, replaceThreeWay_(rf, pr.start, pr.end, rt, d))

\* node.replace(from, to, slice); a ReplaceError yields the error node.
replace(doc, from, to, slice) ==
  LET rf == resolve_(doc, from)
      rt == resolve_(doc, to)
  IN  IF slice.openStart > rf.depth THEN ErrorNode
      ELSE IF rf.depth - slice.openStart # rt.depth - slice.openEnd THEN ErrorNode
      ELSE replaceOuter_(rf, rt, slice, 0)

\* ------------------------------------------------------------------------
\* Selections
\* ------------------------------------------------------------------------

TextSelection(anchor, head) == [kind |-> "text", anchor |-> anchor, head |-> head]
\* NodeSelection.create(doc, from): the node after position from.
NodeSelection(doc, from) ==
  [kind |-> "node", anchor |-> from, head |-> from + nodeSize(nodeAfter_(resolve_(doc, from)))]
AllSelection(doc) == [kind |-> "all", anchor |-> 0, head |-> fragSize(doc.content)]
\* The result of a search for a selection that found none (null).
NoSelection == [kind |-> "none", anchor |-> 0, head |-> 0]

selFrom(sel) == IF sel.anchor < sel.head THEN sel.anchor ELSE sel.head
selTo(sel)   == IF sel.anchor < sel.head THEN sel.head ELSE sel.anchor
\* selection.empty
selEmpty(sel) == sel.anchor = sel.head
\* selection.$cursor: the position of an empty text selection, else null.
hasCursor(sel) == sel.kind = "text" /\ sel.anchor = sel.head

\* NodeSelection.isSelectable(node)
isSelectable(n) == n # NoNode /\ isSelectableType(n.type)

\* findSelectionIn(doc, node, pos, index, dir, text) with text = false
findSelectionIn(doc, node, pos, index, dir) ==
  IF inlineContent(node.type) THEN TextSelection(pos, pos)
  ELSE findSelectionLoop_(doc, node, pos, index - (IF dir > 0 THEN 0 ELSE 1), dir)

findSelectionLoop(doc, node, pos, i, dir) ==
  IF (dir > 0 /\ i >= childCount(node)) \/ (dir < 0 /\ i < 0) THEN NoSelection
  ELSE LET c     == child(node, i)
           inner == findSelectionIn_(doc, c, pos + dir, IF dir < 0 THEN childCount(c) ELSE 0, dir)
       IN  IF ~isAtom(c.type) /\ inner # NoSelection THEN inner
           ELSE IF isAtom(c.type) /\ isSelectable(c)
           THEN NodeSelection_(doc, pos - (IF dir < 0 THEN nodeSize(c) ELSE 0))
           ELSE findSelectionLoop_(doc, node, pos + nodeSize(c) * dir, i + dir, dir)

\* Selection.findFrom($pos, dir)
findFromUp(doc, rp, depth, dir) ==
  IF depth < 0 THEN NoSelection
  ELSE LET found == IF dir < 0
                    THEN findSelectionIn_(doc, nodeAt(rp, depth), beforeAt(rp, depth + 1),
                                         indexAt(rp, depth), dir)
                    ELSE findSelectionIn_(doc, nodeAt(rp, depth), afterAt(rp, depth + 1),
                                         indexAt(rp, depth) + 1, dir)
       IN  IF found # NoSelection THEN found ELSE findFromUp_(doc, rp, depth - 1, dir)

findFrom(doc, rp, dir) ==
  LET inner == IF inlineContent(parentOf(rp).type) THEN TextSelection(rp.pos, rp.pos)
               ELSE findSelectionIn_(doc, parentOf(rp), rp.pos, indexAt(rp, rp.depth), dir)
  IN  IF inner # NoSelection THEN inner ELSE findFromUp_(doc, rp, rp.depth - 1, dir)

\* Selection.near($pos, bias)
near(doc, rp, bias) ==
  LET a == findFrom_(doc, rp, bias)
      b == findFrom_(doc, rp, -bias)
  IN  IF a # NoSelection THEN a ELSE IF b # NoSelection THEN b ELSE AllSelection(doc)

\* ------------------------------------------------------------------------
\* Step maps
\* ------------------------------------------------------------------------

\* StepMap.mapResult(pos, assoc) over ranges <<start, oldSize, newSize>>.
mapRanges(ranges, i, diff, pos, assoc) ==
  IF i > Len(ranges) \/ ranges[i][1] > pos THEN [pos |-> pos + diff, deleted |-> FALSE]
  ELSE LET start   == ranges[i][1]
           oldSize == ranges[i][2]
           newSize == ranges[i][3]
           end     == start + oldSize
           side    == IF oldSize = 0 THEN assoc
                      ELSE IF pos = start THEN -1 ELSE IF pos = end THEN 1 ELSE assoc
       IN  IF pos <= end
           THEN [pos     |-> start + diff + (IF side < 0 THEN 0 ELSE newSize),
                 deleted |-> IF assoc < 0 THEN pos # start ELSE pos # end]
           ELSE mapRanges_(ranges, i + 1, diff + newSize - oldSize, pos, assoc)

\* Mapping.mapResult(pos, assoc) through the step maps from index `from` on.
mapThrough(maps, from, pos, assoc, deleted) ==
  IF from > Len(maps) THEN [pos |-> pos, deleted |-> deleted]
  ELSE LET r == mapRanges_(maps[from], 1, 0, pos, assoc)
       IN  mapThrough_(maps, from + 1, r.pos, assoc, deleted \/ r.deleted)

\* tr.mapping.map(pos)
mappingMap(tr, pos) == mapThrough_(tr.maps, 1, pos, 1, FALSE).pos

\* selection.map(doc, mapping)
mapSelection(sel, doc, maps, from) ==
  IF doc = ErrorNode THEN sel
  ELSE IF sel.kind = "all" THEN AllSelection(doc)
  ELSE IF sel.kind = "node"
  THEN LET r == mapThrough_(maps, from, sel.anchor, 1, FALSE)
       IN  IF r.deleted THEN near_(doc, resolve_(doc, r.pos), 1) ELSE NodeSelection_(doc, r.pos)
  ELSE LET head   == mapThrough_(maps, from, sel.head, 1, FALSE).pos
           anchor == mapThrough_(maps, from, sel.anchor, 1, FALSE).pos
           rh     == resolve_(doc, head)
       IN  IF ~inlineContent(parentOf(rh).type) THEN near_(doc, rh, 1)
           ELSE IF inlineContent(parentOf(resolve_(doc, anchor)).type)
           THEN TextSelection(anchor, head)
           ELSE TextSelection(head, head)

\* ------------------------------------------------------------------------
\* Steps and transactions
\* ------------------------------------------------------------------------

ReplaceStep(from, to, slice, structure) ==
  [kind |-> "replace", from |-> from, to |-> to, gapFrom |-> 0, gapTo |-> 0,
   slice |-> slice, insert |-> 0, structure |-> structure, mark |-> ""]

ReplaceAroundStep(from, to, gapFrom, gapTo, slice, insert, structure) ==
  [kind |-> "replaceAround", from |-> from, to |-> to, gapFrom |-> gapFrom, gapTo |-> gapTo,
   slice |-> slice, insert |-> insert, structure |-> structure, mark |-> ""]

\* contentBetween(doc, from, to): a structure step would overwrite content.
RECURSIVE climbDepth(_, _, _)
climbDepth(rp, dist, depth) ==
  IF dist > 0 /\ depth > 0 /\ indexAfterAt(rp, depth) = childCount(nodeAt(rp, depth))
  THEN climbDepth(rp, dist - 1, depth - 1)
  ELSE [dist |-> dist, depth |-> depth]

RECURSIVE descendLeaf(_, _)
descendLeaf(next, dist) ==
  IF dist <= 0 THEN FALSE
  ELSE IF next = NoNode \/ isLeaf(next.type) THEN TRUE
  ELSE descendLeaf(IF next.content = << >> THEN NoNode ELSE next.content[1], dist - 1)

contentBetween(doc, from, to) ==
  LET rp == resolve_(doc, from)
      c  == climbDepth(rp, to - from, rp.depth)
      n  == nodeAt(rp, c.depth)
      i  == indexAfterAt(rp, c.depth)
  IN  c.dist > 0 /\ descendLeaf(IF i < childCount(n) THEN child(n, i) ELSE NoNode, c.dist)

\* slice.insertAt(pos, fragment): insertInto(content, pos + openStart, fragment)
insertInto(content, dist, insert) ==
  LET fi == findIndex_(content, dist)
  IN  IF fi.offset = dist
      THEN fragCut_(content, 0, dist) \o insert \o fragCut_(content, dist, fragSize(content))
      ELSE LET c == content[fi.index + 1]
           IN  replaceChild(content, fi.index,
                            copy(c, insertInto_(c.content, dist - fi.offset - 1, insert)))

RemoveMarkStep(from, to, mark) ==
  [kind |-> "removeMark", from |-> from, to |-> to, gapFrom |-> 0, gapTo |-> 0,
   slice |-> Slice(<< >>, 0, 0), insert |-> 0, structure |-> FALSE, mark |-> mark]

\* RemoveMarkStep.apply: the mark is removed from the inline nodes in range.
removeMarkIn(f, from, to, mark, pos) ==
  IF f = << >> THEN << >>
  ELSE LET c   == Head(f)
           end == pos + nodeSize(c)
       IN  << IF isInline(c.type)
              THEN (IF pos >= from /\ end <= to THEN [c EXCEPT !.marks = @ \ {mark}] ELSE c)
              ELSE copy(c, removeMarkIn_(c.content, from, to, mark, pos + 1)) >>
           \o removeMarkIn_(Tail(f), from, to, mark, end)

\* AddMarkStep.apply: the mark is added to the inline nodes in range whose
\* parent allows it.
addMarkIn(f, parentType, from, to, mark, pos) ==
  IF f = << >> THEN << >>
  ELSE LET c   == Head(f)
           end == pos + nodeSize(c)
       IN  << IF isInline(c.type)
              THEN (IF pos >= from /\ end <= to /\ allowsMarkType(parentType, mark)
                    THEN [c EXCEPT !.marks = @ \cup {mark}] ELSE c)
              ELSE copy(c, addMarkIn_(c.content, c.type, from, to, mark, pos + 1)) >>
           \o addMarkIn_(Tail(f), parentType, from, to, mark, end)

\* step.apply(doc): the new document, or the error node when the step fails.
applyStep(doc, st) ==
  IF doc = ErrorNode THEN ErrorNode
  ELSE IF st.kind = "removeMark"
  THEN copy(doc, removeMarkIn_(doc.content, st.from, st.to, st.mark, 0))
  ELSE IF st.kind = "addMark"
  THEN copy(doc, addMarkIn_(doc.content, doc.type, st.from, st.to, st.mark, 0))
  ELSE IF st.kind = "replace"
  THEN IF st.structure /\ contentBetween_(doc, st.from, st.to) THEN ErrorNode
       ELSE replace_(doc, st.from, st.to, st.slice)
  ELSE IF st.structure /\ (contentBetween_(doc, st.from, st.gapFrom)
                           \/ contentBetween_(doc, st.gapTo, st.to))
       THEN ErrorNode
       ELSE LET rf  == resolve_(doc, st.gapFrom)
                rt  == resolve_(doc, st.gapTo)
                sd  == sharedDepth_(rf, st.gapTo)
                gap == fragCut_(nodeAt(rf, sd).content, st.gapFrom - startAt(rf, sd),
                           st.gapTo - startAt(rf, sd))
            IN  IF rf.depth # sd \/ rt.depth # sd THEN ErrorNode
                ELSE replace_(doc, st.from, st.to,
                             Slice(insertInto_(st.slice.content, st.insert + st.slice.openStart, gap),
                                   st.slice.openStart, st.slice.openEnd))

\* step.getMap()
stepMap(st) ==
  IF st.kind \in {"removeMark", "addMark"} THEN << >>
  ELSE IF st.kind = "replace"
  THEN << << st.from, st.to - st.from, fragSize(st.slice.content) - st.slice.openStart - st.slice.openEnd >> >>
  ELSE << << st.from, st.gapFrom - st.from, st.insert >>,
          << st.gapTo, st.to - st.gapTo,
             fragSize(st.slice.content) - st.slice.openStart - st.slice.openEnd - st.insert >> >>

\* The stored marks of a state or transaction: absent (null) or a set.
NoMarks == [set |-> FALSE, marks |-> {}]
StoredMarks(ms) == [set |-> TRUE, marks |-> ms]

\* state.tr: a transaction that starts from the state.
newTr(state) ==
  [doc |-> state.doc, steps |-> << >>, maps |-> << >>,
   curSelection |-> state.selection, curSelectionFor |-> 0,
   storedMarks |-> state.storedMarks, scrolledIntoView |-> FALSE, meta |-> {}]

\* tr.step(step): apply the step and record it; the stored marks are reset.
trStep(tr, st) ==
  [tr EXCEPT !.doc = applyStep_(tr.doc, st),
             !.steps = Append(tr.steps, st),
             !.maps = Append(tr.maps, stepMap(st)),
             !.storedMarks = NoMarks]

\* tr.selection: the current selection mapped through the steps made since.
trSelection(tr) ==
  IF tr.curSelectionFor < Len(tr.steps)
  THEN mapSelection_(tr.curSelection, tr.doc, tr.maps, tr.curSelectionFor + 1)
  ELSE tr.curSelection

\* tr.setSelection(selection)
setSelection(tr, sel) ==
  [tr EXCEPT !.curSelection = sel, !.curSelectionFor = Len(tr.steps), !.storedMarks = NoMarks]

\* tr.scrollIntoView()
scrollIntoView(tr) == [tr EXCEPT !.scrolledIntoView = TRUE]

\* tr.setMeta(key, value), recorded as the set of the keys, and tr.isGeneric:
\* no metadata is attached to the transaction.
setMeta(tr, key) == [tr EXCEPT !.meta = @ \cup {key}]
isGeneric(tr) == tr.meta = {}

\* state.apply(tr): the state after the transaction.
applyTr(state, tr) ==
  [doc |-> tr.doc, selection |-> trSelection_(tr), storedMarks |-> tr.storedMarks]

\* match.fillBefore(after, toEnd = true, startIndex): depth-first search for
\* node types to generate so that the content after them matches to the end.
fillSearch(m, types, seen, after, startIndex) ==
  LET finished == matchFragment_(m, after, startIndex, Len(after))
  IN  IF finished # NoMatch /\ validEnd(finished)
      THEN [found |-> TRUE, types |-> types, seen |-> seen]
      ELSE fillEdges_(Edges_(m), 1, types, seen, after, startIndex)

fillEdges(edges, i, types, seen, after, startIndex) ==
  IF i > Len(edges) THEN [found |-> FALSE, types |-> << >>, seen |-> seen]
  ELSE LET t == edges[i].type
           n == edges[i].next
       IN  IF ~(isText(t) \/ hasRequiredAttrs(t)) /\ n \notin seen
           THEN LET r == fillSearch_(n, Append(types, t), seen \cup {n}, after, startIndex)
                IN  IF r.found THEN r
                    ELSE fillEdges_(edges, i + 1, types, r.seen, after, startIndex)
           ELSE fillEdges_(edges, i + 1, types, seen, after, startIndex)

\* type.createAndFill(): a node of the type with the content it requires.
createAndFill(t) ==
  LET r == fillSearch_(contentMatch(t), << >>, {contentMatch(t)}, << >>, 0)
  IN  MkNode(t, IF t = "heading" THEN 1 ELSE 0,
             [i \in 1..Len(r.types) |-> createAndFill_(r.types[i])])

fillBefore(m, after, startIndex) ==
  LET r == fillSearch_(m, << >>, {m}, after, startIndex)
  IN  [found |-> r.found, content |-> [i \in 1..Len(r.types) |-> createAndFill_(r.types[i])]]

\* fitsTrivially($from, $to, slice) for the empty slice
fitsTrivially(rf, rt) ==
  /\ startAt(rf, rf.depth) = startAt(rt, rt.depth)
  /\ canReplace_(parentOf(rf), indexAt(rf, rf.depth), indexAt(rt, rt.depth), << >>)

\* The range runs from inside one textblock into a later sibling textblock
\* of the same type, and the parent may lose the nodes between them: the
\* fitted replacement for deleting it is the empty slice, which joins the
\* two textblocks.
spansSiblings(rf, rt) ==
  /\ rf.depth = rt.depth /\ rf.depth >= 1
  /\ startAt(rf, rf.depth) < startAt(rt, rt.depth)
  /\ startAt(rf, rf.depth - 1) = startAt(rt, rt.depth - 1)
  /\ isTextblock(parentOf(rf).type)
  /\ parentOf(rf).type = parentOf(rt).type
  /\ canReplace_(nodeAt(rf, rf.depth - 1), indexAt(rf, rf.depth - 1) + 1,
                 indexAt(rt, rt.depth - 1) + 1, << >>)

\* tr.delete(from, to), for a range of children of one parent or a range
\* between two sibling textblocks, which is what the commands delete: a
\* plain ReplaceStep when the parent may lose the children, and otherwise
\* the fitted replacement, which fills in the nodes the parent requires
\* before the content that follows; no step when nothing fits.  Any other
\* range that spans parents is outside the model and yields the error
\* document.
trDelete(tr, from, to) ==
  LET rf   == resolve_(tr.doc, from)
      rt   == resolve_(tr.doc, to)
      fill == fillBefore_(contentMatchAt_(parentOf(rf), indexAt(rf, rf.depth)),
                         parentOf(rf).content, indexAt(rt, rt.depth))
  IN  IF from = to THEN tr
      ELSE IF fitsTrivially_(rf, rt) THEN trStep_(tr, ReplaceStep(from, to, SliceEmpty, FALSE))
      ELSE IF spansSiblings(rf, rt) THEN trStep_(tr, ReplaceStep(from, to, SliceEmpty, FALSE))
      ELSE IF startAt(rf, rf.depth) # startAt(rt, rt.depth) THEN [tr EXCEPT !.doc = ErrorNode]
      ELSE IF fill.found
      THEN trStep_(tr, ReplaceStep(from, to, Slice(fill.content, 0, 0), FALSE))
      ELSE tr

\* tr.join(pos)
trJoin(tr, pos) == trStep_(tr, ReplaceStep(pos - 1, pos + 1, SliceEmpty, TRUE))

\* canJoin(doc, pos)
canAppend(a, b) ==
  IF fragSize(b.content) > 0
  THEN canReplace_(a, childCount(a), childCount(a), b.content)
  ELSE compatibleContent_(a.type, b.type)

canJoin(doc, pos) ==
  LET rp == resolve_(doc, pos)
      a  == nodeBefore_(rp)
      b  == nodeAfter_(rp)
      i  == indexAt(rp, rp.depth)
  IN  /\ a # NoNode /\ b # NoNode /\ ~isLeaf(a.type) /\ canAppend_(a, b)
      /\ canReplace_(parentOf(rp), i, i + 1, << >>)

\* $from.blockRange($to): the range of blocks around two positions.
NoRange == [from |-> 0, to |-> 0, depth |-> -1]

blockRangeFrom(rf, rt, d) ==
  IF d < 0 THEN NoRange
  ELSE IF rt.pos <= endAt(rf, d) THEN [from |-> rf.pos, to |-> rt.pos, depth |-> d]
  ELSE blockRangeFrom_(rf, rt, d - 1)

blockRange(doc, p1, p2) ==
  LET lo == IF p2 < p1 THEN p2 ELSE p1
      hi == IF p2 < p1 THEN p1 ELSE p2
      rf == resolve_(doc, lo)
      rt == resolve_(doc, hi)
  IN  blockRangeFrom_(rf, rt,
        rf.depth - (IF inlineContent(parentOf(rf).type) \/ lo = hi THEN 1 ELSE 0))

\* canCut(node, start, end)
canCut(n, start, end) ==
  /\ (start = 0 \/ canReplace_(n, start, childCount(n), << >>))
  /\ (end = childCount(n) \/ canReplace_(n, 0, end, << >>))

\* liftTarget(range): the depth to lift to, or -1 for none (null).
liftTargetFrom(rf, rt, rdepth, content, depth) ==
  LET node     == nodeAt(rf, depth)
      index    == indexAt(rf, depth)
      endIndex == indexAfterAt(rt, depth)
  IN  IF depth < rdepth /\ canReplace_(node, index, endIndex, content) THEN depth
      ELSE IF depth = 0 \/ isolating(node.type) \/ ~canCut_(node, index, endIndex) THEN -1
      ELSE liftTargetFrom_(rf, rt, rdepth, content, depth - 1)

liftTarget(doc, range) ==
  LET rf == resolve_(doc, range.from)
      rt == resolve_(doc, range.to)
      content == cutByIndex(nodeAt(rf, range.depth).content,
                            indexAt(rf, range.depth), indexAfterAt(rt, range.depth))
  IN  liftTargetFrom_(rf, rt, range.depth, content, range.depth)

\* tr.lift(range, target)
liftBefore(rf, d, target, acc) ==
  IF d <= target THEN acc
  ELSE IF acc.splitting \/ indexAt(rf, d) > 0
  THEN liftBefore_(rf, d - 1, target,
                  [acc EXCEPT !.splitting = TRUE,
                              !.frag = << copy(nodeAt(rf, d), acc.frag) >>,
                              !.open = acc.open + 1])
  ELSE liftBefore_(rf, d - 1, target, [acc EXCEPT !.pos = acc.pos - 1])

liftAfter(rt, d, target, acc) ==
  IF d <= target THEN acc
  ELSE IF acc.splitting \/ afterAt(rt, d + 1) < endAt(rt, d)
  THEN liftAfter_(rt, d - 1, target,
                 [acc EXCEPT !.splitting = TRUE,
                             !.frag = << copy(nodeAt(rt, d), acc.frag) >>,
                             !.open = acc.open + 1])
  ELSE liftAfter_(rt, d - 1, target, [acc EXCEPT !.pos = acc.pos + 1])

trLift(tr, range, target) ==
  LET rf       == resolve_(tr.doc, range.from)
      rt       == resolve_(tr.doc, range.to)
      gapStart == beforeAt(rf, range.depth + 1)
      gapEnd   == afterAt(rt, range.depth + 1)
      b == liftBefore_(rf, range.depth, target,
                      [splitting |-> FALSE, frag |-> << >>, open |-> 0, pos |-> gapStart])
      a == liftAfter_(rt, range.depth, target,
                     [splitting |-> FALSE, frag |-> << >>, open |-> 0, pos |-> gapEnd])
  IN  trStep_(tr, ReplaceAroundStep(b.pos, a.pos, gapStart, gapEnd,
                                   Slice(b.frag \o a.frag, b.open, a.open),
                                   fragSize(b.frag) - b.open, TRUE))

\* ------------------------------------------------------------------------
\* Document builders (the notation of the tests)
\* ------------------------------------------------------------------------

Txt(chars)    == [i \in 1..Len(chars) |-> MkText(chars[i], {})]
Doc(c)        == MkNode("doc", 0, c)
P(c)          == MkNode("paragraph", 0, c)
H1(c)         == MkNode("heading", 1, c)
Pre(c)        == MkNode("code_block", 0, c)
Blockquote(c) == MkNode("blockquote", 0, c)
Ul(c)         == MkNode("bullet_list", 0, c)
Ol(c)         == MkNode("ordered_list", 0, c)
Li(c)         == MkNode("list_item", 0, c)
Aside(c)      == MkNode("aside", 0, c)
HDoc(c)       == MkNode("hdoc", 0, c)
HH(c)         == MkNode("hheading", 0, c)
TDoc(c)       == MkNode("tdoc", 0, c)
Title(c)      == MkNode("title", 0, c)
Hr            == MkNode("horizontal_rule", 0, << >>)
Img           == MkNode("image", 0, << >>)

\* ------------------------------------------------------------------------
\* The commands of src/src/commands.js
\* ------------------------------------------------------------------------

\* tr.clearNonMatching(pos, parentType, match): remove from the node at pos
\* the children and marks that parentType does not allow from match on.
clearScan(node, i, cur, parentType, match, acc) ==
  IF i >= childCount(node) THEN [acc EXCEPT !.match = match, !.cur = cur]
  ELSE LET c       == child(node, i)
           end     == cur + nodeSize(c)
           allowed == matchType_(match, c.type)
           bad     == { mk \in c.marks : ~allowsMarkType(parentType, mk) }
       IN  IF allowed = NoMatch
           THEN clearScan_(node, i + 1, end, parentType, match,
                          [acc EXCEPT !.del = << ReplaceStep(cur, end, SliceEmpty, FALSE) >> \o @])
           ELSE clearScan_(node, i + 1, end, parentType, allowed,
                          [acc EXCEPT !.unmark = @ \o
                              (IF "em" \in bad THEN << RemoveMarkStep(cur, end, "em") >> ELSE << >>)
                              \o (IF "strong" \in bad THEN << RemoveMarkStep(cur, end, "strong") >> ELSE << >>)])

trSteps(tr, steps) == IF steps = << >> THEN tr ELSE trSteps_(trStep_(tr, Head(steps)), Tail(steps))

clearNonMatching(tr, pos, parentType, match) ==
  LET node == nodeAfter_(resolve_(tr.doc, pos))
      scan == clearScan_(node, 0, pos + 1, parentType, match,
                        [del |-> << >>, unmark |-> << >>, match |-> match, cur |-> pos + 1])
      tr1  == trSteps_(tr, scan.unmark)
      fill == fillBefore_(scan.match, << >>, 0)
      tr2  == IF ~validEnd(scan.match) /\ fill.found /\ fill.content # << >>
              THEN trStep_(tr1, ReplaceStep(scan.cur, scan.cur, Slice(fill.content, 0, 0), FALSE))
              ELSE tr1
  IN  trSteps_(tr2, scan.del)

\* The view argument: absent, or the answer of view.endOfTextblock.
NoView == [present |-> FALSE, endOfTextblock |-> FALSE]
View(answer) == [present |-> TRUE, endOfTextblock |-> answer]

\* What a call returns and does: the boolean it returns, the transactions
\* it handed to dispatch, in order, and the calls it made, in order.
Result(ret, trs) == [ret |-> ret, trs |-> trs, calls |-> << >>]

\* The result of code that goes on after the call r returned false.
Then(r, ret, trs) == [ret |-> ret, trs |-> r.trs \o trs, calls |-> r.calls]

\* The result r of a call of fn, with the call entered in the trace: its
\* arguments, what it returned and how many transactions it dispatched.
Logged(fn, dispatch, view, r) ==
  [r EXCEPT !.calls = << [fn |-> fn, dispatch |-> dispatch, view |-> view,
                          ret |-> r.ret, sent |-> Len(r.trs)] >> \o @]

\* if (dispatch) dispatch(tr)
Dispatch(dispatch, tr) == IF dispatch THEN << tr >> ELSE << >>

\* type.create(null, content)
create(t, c) == MkNode(t, IF t = "heading" THEN 1 ELSE 0, c)

\* joinMaybeClear that joins without clearing what the node before the cut
\* does not allow.
joinMaybeClearKeeps(state, pos, dispatch) ==
  LET rp     == resolve_(state.doc, pos)
      before == nodeBefore_(rp)
      after  == nodeAfter_(rp)
      index  == indexAt(rp, rp.depth)
  IN  Logged(<< "joinMaybeClear" >>, dispatch, NoView,
      IF before = NoNode \/ after = NoNode THEN Result(FALSE, << >>)
      ELSE IF ~compatibleContent_(before.type, after.type) THEN Result(FALSE, << >>)
      ELSE IF fragSize(before.content) = 0 /\ canReplace_(parentOf(rp), index - 1, index, << >>)
      THEN Result(TRUE, Dispatch(dispatch,
                    scrollIntoView(trDelete_(newTr(state), pos - nodeSize(before), pos))))
      ELSE IF \/ ~canReplace_(parentOf(rp), index, index + 1, << >>)
              \/ ~(isTextblock(after.type) \/ canJoin_(state.doc, pos))
      THEN Result(FALSE, << >>)
      ELSE Result(TRUE, Dispatch(dispatch, scrollIntoView(trJoin_(newTr(state), pos)))))

\* joinMaybeClear without the branch for an empty node before the cut: it
\* always joins the node after into the node before.
joinMaybeClearJoins(state, pos, dispatch) ==
  LET rp     == resolve_(state.doc, pos)
      before == nodeBefore_(rp)
      after  == nodeAfter_(rp)
      index  == indexAt(rp, rp.depth)
  IN  Logged(<< "joinMaybeClear" >>, dispatch, NoView,
      IF before = NoNode \/ after = NoNode THEN Result(FALSE, << >>)
      ELSE IF ~compatibleContent_(before.type, after.type) THEN Result(FALSE, << >>)
      ELSE IF \/ ~canReplace_(parentOf(rp), index, index + 1, << >>)
              \/ ~(isTextblock(after.type) \/ canJoin_(state.doc, pos))
      THEN Result(FALSE, << >>)
      ELSE Result(TRUE, Dispatch(dispatch,
                    scrollIntoView(trJoin_(
                      clearNonMatching_(newTr(state), pos, before.type,
                                       contentMatchAt_(before, childCount(before))),
                      pos)))))

joinMaybeClear(state, pos, dispatch) ==
  LET rp     == resolve_(state.doc, pos)
      before == nodeBefore_(rp)
      after  == nodeAfter_(rp)
      index  == indexAt(rp, rp.depth)
  IN  Logged(<< "joinMaybeClear" >>, dispatch, NoView,
      IF before = NoNode \/ after = NoNode THEN Result(FALSE, << >>)
      ELSE IF ~compatibleContent_(before.type, after.type) THEN Result(FALSE, << >>)
      ELSE IF fragSize(before.content) = 0 /\ canReplace_(parentOf(rp), index - 1, index, << >>)
      THEN Result(TRUE, Dispatch(dispatch,
                    scrollIntoView(trDelete_(newTr(state), pos - nodeSize(before), pos))))
      ELSE IF \/ ~canReplace_(parentOf(rp), index, index + 1, << >>)
              \/ ~(isTextblock(after.type) \/ canJoin_(state.doc, pos))
      THEN Result(FALSE, << >>)
      ELSE Result(TRUE, Dispatch(dispatch,
                    scrollIntoView(trJoin_(
                      clearNonMatching_(newTr(state), pos, before.type,
                                       contentMatchAt_(before, childCount(before))),
                      pos)))))

\* The wrapper chain conn around an empty fragment, inside a copy of before.
RECURSIVE wrapChain(_, _, _)
wrapChain(conn, i, wrap) ==
  IF i < 1 THEN wrap ELSE wrapChain(conn, i - 1, << create(conn[i], wrap) >>)

\* deleteBarrier, second strategy: whether the node after the cut can be
\* moved into the node before it, wrapped in conn.
wrapApplies(state, cut) ==
  LET rc     == resolve_(state.doc, cut)
      before == nodeBefore_(rc)
      after  == nodeAfter_(rc)
      match  == contentMatchAt_(before, childCount(before))
      conn   == matchFindWrapping_(match, after.type)
  IN  /\ canReplace_(parentOf(rc), indexAt(rc, rc.depth), indexAt(rc, rc.depth) + 1, << >>)
      /\ conn.found
      /\ LET m == matchType_(match, IF conn.conn # << >> THEN conn.conn[1] ELSE after.type)
         IN  m # NoMatch /\ validEnd(m)

\* wrapTr that moves the node after the cut into the node before it without
\* wrapping it in conn.
wrapTrBare(state, cut) ==
  LET rc     == resolve_(state.doc, cut)
      before == nodeBefore_(rc)
      after  == nodeAfter_(rc)
      end    == cut + nodeSize(after)
      tr1    == trStep_(newTr(state),
                       ReplaceAroundStep(cut - 1, end, cut, end,
                                         Slice(<< copy(before, << >>) >>, 1, 0), 0, TRUE))
  IN  scrollIntoView(IF canJoin_(tr1.doc, end) THEN trJoin_(tr1, end) ELSE tr1)

\* The transaction of the second strategy.
wrapTr(state, cut) ==
  LET rc     == resolve_(state.doc, cut)
      before == nodeBefore_(rc)
      after  == nodeAfter_(rc)
      match  == contentMatchAt_(before, childCount(before))
      conn   == matchFindWrapping_(match, after.type)
      end    == cut + nodeSize(after)
      wrap   == << copy(before, wrapChain(conn.conn, Len(conn.conn), << >>)) >>
      tr1    == trStep_(newTr(state),
                       ReplaceAroundStep(cut - 1, end, cut, end, Slice(wrap, 1, 0),
                                         Len(conn.conn), TRUE))
      joinAt == end + 2 * Len(conn.conn)
  IN  scrollIntoView(IF canJoin_(tr1.doc, joinAt) THEN trJoin_(tr1, joinAt) ELSE tr1)

\* deleteBarrier, third strategy: the block range around the first
\* selection after the cut, and the depth it can be lifted to.
liftRange(state, cut) ==
  LET selAfter == findFrom_(state.doc, resolve_(state.doc, cut), 1)
  IN  IF selAfter = NoSelection THEN NoRange
      ELSE blockRange_(state.doc, selFrom(selAfter), selTo(selAfter))

liftTargetAfter(state, cut) ==
  IF liftRange_(state, cut) = NoRange THEN -1
  ELSE liftTarget_(state.doc, liftRange_(state, cut))

\* liftApplies without the comparison of the target with the depth of the cut.
liftAppliesAnyDepth(state, cut) == liftTargetAfter_(state, cut) # -1

liftApplies(state, cut) ==
  /\ liftTargetAfter_(state, cut) # -1
  /\ liftTargetAfter_(state, cut) >= resolve_(state.doc, cut).depth

\* The transaction of the third strategy.
liftTr(state, cut) ==
  scrollIntoView(trLift_(newTr(state), liftRange_(state, cut), liftTargetAfter_(state, cut)))

\* deleteBarrier that tries to lift before it tries to wrap.
deleteBarrierLiftFirst(state, cut, dispatch) ==
  LET jmc == joinMaybeClear_(state, cut, dispatch)
  IN  Logged(<< "deleteBarrier" >>, dispatch, NoView,
      IF jmc.ret THEN jmc
      ELSE IF liftApplies_(state, cut)
      THEN Then(jmc, TRUE, Dispatch(dispatch, liftTr_(state, cut)))
      ELSE IF wrapApplies_(state, cut)
      THEN Then(jmc, TRUE, Dispatch(dispatch, wrapTr_(state, cut)))
      ELSE Then(jmc, FALSE, << >>))

\* deleteBarrier with "joinMaybeClear(state, $cut, dispatch)" not followed
\* by "return true".
deleteBarrierGoesOn(state, cut, dispatch) ==
  LET jmc == joinMaybeClear_(state, cut, dispatch)
  IN  Logged(<< "deleteBarrier" >>, dispatch, NoView,
      IF wrapApplies_(state, cut)
      THEN Then(jmc, TRUE, Dispatch(dispatch, wrapTr_(state, cut)))
      ELSE IF liftApplies_(state, cut)
      THEN Then(jmc, TRUE, Dispatch(dispatch, liftTr_(state, cut)))
      ELSE Then(jmc, jmc.ret, << >>))

deleteBarrier(state, cut, dispatch) ==
  LET jmc == joinMaybeClear_(state, cut, dispatch)
  IN  Logged(<< "deleteBarrier" >>, dispatch, NoView,
      IF jmc.ret THEN jmc
      ELSE IF wrapApplies_(state, cut)
      THEN Then(jmc, TRUE, Dispatch(dispatch, wrapTr_(state, cut)))
      ELSE IF liftApplies_(state, cut)
      THEN Then(jmc, TRUE, Dispatch(dispatch, liftTr_(state, cut)))
      ELSE Then(jmc, FALSE, << >>))

\* findCutBefore($pos): the position of the cut, or -1 for null.
RECURSIVE findCutBeforeFrom(_, _)
findCutBeforeFrom(rp, i) ==
  IF i < 0 THEN -1
  ELSE IF indexAt(rp, i) > 0 THEN beforeAt(rp, i + 1)
  ELSE IF isolating(nodeAt(rp, i).type) THEN -1
  ELSE findCutBeforeFrom(rp, i - 1)

findCutBefore(rp) ==
  IF ~isolating(parentOf(rp).type) THEN findCutBeforeFrom(rp, rp.depth - 1) ELSE -1

\* findCutAfter($pos)
findCutAfterFrom(rp, i) ==
  IF i < 0 THEN -1
  ELSE IF indexAt(rp, i) + 1 < childCount(nodeAt(rp, i)) THEN afterAt(rp, i + 1)
  ELSE IF isolating(nodeAt(rp, i).type) THEN -1
  ELSE findCutAfterFrom_(rp, i - 1)

findCutAfter(rp) ==
  IF ~isolating(parentOf(rp).type) THEN findCutAfterFrom_(rp, rp.depth - 1) ELSE -1

\* The test that opens joinBackward and selectNodeBackward: no cursor, or
\* the cursor is not at the start of its textblock.
\* notAtStart that looks at the offset of the cursor whether or not there is
\* a view.
notAtStartByOffset(state, view) ==
  \/ ~hasCursor(state.selection)
  \/ parentOffset(resolve_(state.doc, state.selection.head)) > 0

notAtStart(state, view) ==
  \/ ~hasCursor(state.selection)
  \/ (IF view.present THEN ~view.endOfTextblock
      ELSE parentOffset(resolve_(state.doc, state.selection.head)) > 0)

\* The test that opens joinForward and selectNodeForward.
notAtEnd(state, view) ==
  \/ ~hasCursor(state.selection)
  \/ (IF view.present THEN ~view.endOfTextblock
      ELSE LET rc == resolve_(state.doc, state.selection.head)
           IN  parentOffset(rc) < fragSize(parentOf(rc).content))

\* joinBackward that gives up when there is no node before the textblock.
joinBackwardNoLift(state, dispatch, view) ==
  LET cursor == resolve_(state.doc, state.selection.head)
      cut    == findCutBefore_(cursor)
      range  == blockRange_(state.doc, cursor.pos, cursor.pos)
      target == IF range = NoRange THEN -1 ELSE liftTarget_(state.doc, range)
      rc     == resolve_(state.doc, cut)
      before == nodeBefore_(rc)
      db     == IF ~isolating(before.type) THEN deleteBarrier_(state, cut, dispatch)
                ELSE Result(FALSE, << >>)
      trDel  == trDelete_(newTr(state), beforeAt(cursor, cursor.depth), afterAt(cursor, cursor.depth))
  IN  IF notAtStart_(state, view) THEN Result(FALSE, << >>)
      ELSE IF cut = -1
      THEN Result(FALSE, << >>)
      ELSE IF db.ret THEN db
      ELSE IF fragSize(parentOf(cursor).content) = 0 /\ isSelectable(before)
      THEN Then(db, TRUE, Dispatch(dispatch,
                  scrollIntoView(setSelection(trDel,
                    NodeSelection_(trDel.doc, cut - nodeSize(before))))))
      ELSE IF isAtom(before.type) /\ rc.depth = cursor.depth - 1
      THEN Then(db, TRUE, Dispatch(dispatch,
                  scrollIntoView(trDelete_(newTr(state), cut - nodeSize(before), cut))))
      ELSE Then(db, FALSE, << >>)

\* joinBackward that deletes an atom before the cut, at whatever depth the
\* cut is, before it tries deleteBarrier.
joinBackwardDeletesFirst(state, dispatch, view) ==
  LET cursor == resolve_(state.doc, state.selection.head)
      cut    == findCutBefore_(cursor)
      rc     == resolve_(state.doc, cut)
      before == nodeBefore_(rc)
  IN  IF notAtStart_(state, view) \/ cut = -1 THEN joinBackwardNoLift(state, dispatch, view)
      ELSE IF isAtom(before.type)
      THEN Result(TRUE, Dispatch(dispatch,
                  scrollIntoView(trDelete_(newTr(state), cut - nodeSize(before), cut))))
      ELSE joinBackwardNoLift(state, dispatch, view)

joinBackward(state, dispatch, view) ==
  LET cursor == resolve_(state.doc, state.selection.head)
      cut    == findCutBefore_(cursor)
      range  == blockRange_(state.doc, cursor.pos, cursor.pos)
      target == IF range = NoRange THEN -1 ELSE liftTarget_(state.doc, range)
      rc     == resolve_(state.doc, cut)
      before == nodeBefore_(rc)
      db     == IF ~isolating(before.type) THEN deleteBarrier_(state, cut, dispatch)
                ELSE Result(FALSE, << >>)
      trDel  == trDelete_(newTr(state), beforeAt(cursor, cursor.depth), afterAt(cursor, cursor.depth))
  IN  IF notAtStart_(state, view) THEN Result(FALSE, << >>)
      ELSE IF cut = -1
      THEN IF target = -1 THEN Result(FALSE, << >>)
           ELSE Result(TRUE, Dispatch(dispatch, scrollIntoView(trLift_(newTr(state), range, target))))
      ELSE IF db.ret THEN db
      ELSE IF fragSize(parentOf(cursor).content) = 0 /\ isSelectable(before)
      THEN Then(db, TRUE, Dispatch(dispatch,
                  scrollIntoView(setSelection(trDel,
                    NodeSelection_(trDel.doc, cut - nodeSize(before))))))
      ELSE IF isAtom(before.type) /\ rc.depth = cursor.depth - 1
      THEN Then(db, TRUE, Dispatch(dispatch,
                  scrollIntoView(trDelete_(newTr(state), cut - nodeSize(before), cut))))
      ELSE Then(db, FALSE, << >>)

selectNodeBackward(state, dispatch, view) ==
  LET cursor == resolve_(state.doc, state.selection.head)
      cut    == findCutBefore_(cursor)
      node   == IF cut = -1 THEN NoNode ELSE nodeBefore_(resolve_(state.doc, cut))
  IN  IF notAtStart_(state, view) THEN Result(FALSE, << >>)
      ELSE IF node = NoNode \/ ~isSelectable(node) THEN Result(FALSE, << >>)
      ELSE Result(TRUE, Dispatch(dispatch,
             scrollIntoView(setSelection(newTr(state),
               NodeSelection_(state.doc, cut - nodeSize(node))))))

\* joinForward that, like joinBackward, lifts the textblock when there is no
\* node after it.
joinForwardLifts(state, dispatch, view) ==
  LET cursor == resolve_(state.doc, state.selection.head)
      cut    == findCutAfter_(cursor)
      range  == blockRange_(state.doc, cursor.pos, cursor.pos)
      target == IF range = NoRange THEN -1 ELSE liftTarget_(state.doc, range)
  IN  IF notAtEnd_(state, view) THEN Result(FALSE, << >>)
      ELSE IF cut = -1
      THEN IF target = -1 THEN Result(FALSE, << >>)
           ELSE Result(TRUE, Dispatch(dispatch, scrollIntoView(trLift_(newTr(state), range, target))))
      ELSE Result(FALSE, << >>)

joinForward(state, dispatch, view) ==
  LET cursor == resolve_(state.doc, state.selection.head)
      cut    == findCutAfter_(cursor)
      rc     == resolve_(state.doc, cut)
      after  == nodeAfter_(rc)
      db     == deleteBarrier_(state, cut, dispatch)
      trDel  == trDelete_(newTr(state), beforeAt(cursor, cursor.depth), afterAt(cursor, cursor.depth))
  IN  IF notAtEnd_(state, view) THEN Result(FALSE, << >>)
      ELSE IF cut = -1 THEN Result(FALSE, << >>)
      ELSE IF db.ret THEN db
      ELSE IF fragSize(parentOf(cursor).content) = 0 /\ isSelectable(after)
      THEN Then(db, TRUE, Dispatch(dispatch,
                  scrollIntoView(setSelection(trDel,
                    NodeSelection_(trDel.doc, mappingMap_(trDel, cut))))))
      ELSE IF isAtom(after.type) /\ rc.depth = cursor.depth - 1
      THEN Then(db, TRUE, Dispatch(dispatch,
                  scrollIntoView(trDelete_(newTr(state), cut, cut + nodeSize(after)))))
      ELSE Then(db, FALSE, << >>)

selectNodeForward(state, dispatch, view) ==
  LET cursor == resolve_(state.doc, state.selection.head)
      cut    == findCutAfter_(cursor)
      node   == IF cut = -1 THEN NoNode ELSE nodeAfter_(resolve_(state.doc, cut))
  IN  IF notAtEnd_(state, view) THEN Result(FALSE, << >>)
      ELSE IF node = NoNode \/ ~isSelectable(node) THEN Result(FALSE, << >>)
      ELSE Result(TRUE, Dispatch(dispatch,
             scrollIntoView(setSelection(newTr(state), NodeSelection_(state.doc, cut)))))

\* coveredDepths($from, $to): the depths at which the range covers a whole
\* node, deepest first.
coveredFrom(rf, rt, d) ==
  IF d < 0 THEN << >>
  ELSE LET start == startAt(rf, d)
       IN  IF \/ start < rf.pos - (rf.depth - d)
              \/ endAt(rt, d) > rt.pos + (rt.depth - d)
              \/ isolating(nodeAt(rf, d).type)
              \/ isolating(nodeAt(rt, d).type)
           THEN << >>
           ELSE (IF start = startAt(rt, d) THEN << d >> ELSE << >>)
                \o coveredFrom_(rf, rt, d - 1)

coveredDepths(rf, rt) == coveredFrom_(rf, rt, IF rf.depth < rt.depth THEN rf.depth ELSE rt.depth)

\* tr.deleteRange(from, to)
deleteCovered(tr, rf, rt, covered, i) ==
  IF i > Len(covered) THEN trDelete_(tr, rf.pos, rt.pos)
  ELSE LET depth == covered[i]
           last  == i = Len(covered)
       IN  IF (last /\ depth = 0) \/ validEnd(contentMatch(nodeAt(rf, depth).type))
           THEN trDelete_(tr, startAt(rf, depth), endAt(rt, depth))
           ELSE IF depth > 0 /\ (last \/ canReplace_(nodeAt(rf, depth - 1), indexAt(rf, depth - 1),
                                                   indexAfterAt(rt, depth - 1), << >>))
           THEN trDelete_(tr, beforeAt(rf, depth), afterAt(rt, depth))
           ELSE deleteCovered_(tr, rf, rt, covered, i + 1)

deleteRange(tr, from, to) ==
  LET rf == resolve_(tr.doc, from)
      rt == resolve_(tr.doc, to)
  IN  deleteCovered_(tr, rf, rt, coveredDepths_(rf, rt), 1)

\* A deleteSelection that replaces the selection and leaves the marks alone.
trDeleteSelectionPlain(tr) ==
  LET sel  == trSelection_(tr)
      tr1  == deleteRange_(tr, selFrom(sel), selTo(sel))
      last == Len(tr1.steps)
      m    == tr1.maps[last]
      end  == m[1][1] + m[1][3]
  IN  IF last <= Len(tr.steps) \/ tr1.doc = ErrorNode THEN tr1
      ELSE setSelection(tr1, near_(tr1.doc, resolve_(tr1.doc, end), 1))

\* tr.deleteSelection(): selection.replace(tr) with the empty slice, then
\* selectionToInsertionEnd(tr, startLen, 1). The replace of a text selection
\* then makes the transaction keep the marks of the inline node that
\* followed the start of the selection ($from.marksAcross($to), when there
\* is such a node).
trDeleteSelection(tr) ==
  LET sel  == trSelection_(tr)
      rf   == resolve_(tr.doc, selFrom(sel))
      tr1  == deleteRange_(tr, selFrom(sel), selTo(sel))
      last == Len(tr1.steps)
      m    == tr1.maps[last]
      end  == m[1][1] + m[1][3]
      tr2  == IF last <= Len(tr.steps) \/ tr1.doc = ErrorNode THEN tr1
              ELSE setSelection(tr1, near_(tr1.doc, resolve_(tr1.doc, end), 1))
      kept == /\ sel.kind = "text"
              /\ indexAt(rf, rf.depth) < childCount(parentOf(rf))
              /\ isInline(child(parentOf(rf), indexAt(rf, rf.depth)).type)
  IN  IF kept /\ tr2.doc # ErrorNode THEN ensureMarks_(tr2, marksAcross_(rf)) ELSE tr2

deleteSelection(state, dispatch) ==
  IF selEmpty(state.selection) THEN Result(FALSE, << >>)
  ELSE Result(TRUE, Dispatch(dispatch, scrollIntoView(trDeleteSelection_(newTr(state)))))

\* joinPoint(doc, pos, dir): the position to join at, or -1 for none.
joinPointFrom(doc, rp, pos, dir, d) ==
  LET idx    == indexAt(rp, d)
      index  == IF d # rp.depth /\ dir > 0 THEN idx + 1 ELSE idx
      n      == nodeAt(rp, d)
      before == IF d = rp.depth THEN nodeBefore_(rp)
                ELSE IF dir > 0 THEN nodeAt(rp, d + 1)
                ELSE IF idx - 1 >= 0 THEN child(n, idx - 1) ELSE NoNode
      after  == IF d = rp.depth THEN nodeAfter_(rp)
                ELSE IF dir > 0 THEN (IF index < childCount(n) THEN child(n, index) ELSE NoNode)
                ELSE nodeAt(rp, d + 1)
  IN  IF /\ before # NoNode /\ ~isTextblock(before.type)
         /\ after # NoNode /\ ~isLeaf(before.type) /\ canAppend_(before, after)
         /\ canReplace_(n, index, index + 1, << >>)
      THEN pos
      ELSE IF d = 0 THEN -1
      ELSE joinPointFrom_(doc, rp, IF dir < 0 THEN beforeAt(rp, d) ELSE afterAt(rp, d), dir, d - 1)

joinPoint(doc, pos, dir) == LET rp == resolve_(doc, pos) IN joinPointFrom_(doc, rp, pos, dir, rp.depth)

\* The node of a node selection.
selNode(state) == nodeAfter_(resolve_(state.doc, state.selection.anchor))

\* joinUp that looks for the closest joinable boundary above a node
\* selection as it does for a text selection.
joinUpAncestors(state, dispatch) ==
  LET sel     == state.selection
      point   == joinPoint_(state.doc, selFrom(sel), -1)
  IN  IF point = -1 THEN Result(FALSE, << >>)
      ELSE Result(TRUE, Dispatch(dispatch, scrollIntoView(trJoin_(newTr(state), point))))

joinUp(state, dispatch) ==
  LET sel     == state.selection
      nodeSel == sel.kind = "node"
      point   == IF nodeSel THEN selFrom(sel) ELSE joinPoint_(state.doc, selFrom(sel), -1)
      tr1     == trJoin_(newTr(state), point)
      tr2     == IF nodeSel
                 THEN setSelection(tr1, NodeSelection_(tr1.doc,
                        point - nodeSize(nodeBefore_(resolve_(state.doc, point)))))
                 ELSE tr1
  IN  IF nodeSel /\ (isTextblock(selNode_(state).type) \/ ~canJoin_(state.doc, selFrom(sel)))
      THEN Result(FALSE, << >>)
      ELSE IF ~nodeSel /\ point = -1 THEN Result(FALSE, << >>)
      ELSE Result(TRUE, Dispatch(dispatch, scrollIntoView(tr2)))

joinDown(state, dispatch) ==
  LET sel     == state.selection
      nodeSel == sel.kind = "node"
      point   == IF nodeSel THEN selTo(sel) ELSE joinPoint_(state.doc, selTo(sel), 1)
  IN  IF nodeSel /\ (isTextblock(selNode_(state).type) \/ ~canJoin_(state.doc, selTo(sel)))
      THEN Result(FALSE, << >>)
      ELSE IF ~nodeSel /\ point = -1 THEN Result(FALSE, << >>)
      ELSE Result(TRUE, Dispatch(dispatch, scrollIntoView(trJoin_(newTr(state), point))))

\* lift with its "return true" inside "if (dispatch)".
liftReturnsDispatch(state, dispatch) ==
  LET range  == blockRange_(state.doc, selFrom(state.selection), selTo(state.selection))
      target == IF range = NoRange THEN -1 ELSE liftTarget_(state.doc, range)
  IN  IF target = -1 THEN Result(FALSE, << >>)
      ELSE Result(dispatch, Dispatch(dispatch, scrollIntoView(trLift_(newTr(state), range, target))))

lift(state, dispatch) ==
  LET range  == blockRange_(state.doc, selFrom(state.selection), selTo(state.selection))
      target == IF range = NoRange THEN -1 ELSE liftTarget_(state.doc, range)
  IN  IF target = -1 THEN Result(FALSE, << >>)
      ELSE Result(TRUE, Dispatch(dispatch, scrollIntoView(trLift_(newTr(state), range, target))))

\* type.validContent(fragment)
validContent(t, f) ==
  LET m == matchFragment_(contentMatch(t), f, 0, Len(f))
  IN  m # NoMatch /\ validEnd(m) /\ \A i \in 1..Len(f) : allowsMarks(t, f[i].marks)

\* canSplit(doc, pos, 1, [{type: typeAfter}]); typeAfter "none" when the
\* types argument is absent.
canSplit(doc, pos, typeAfter) ==
  LET rp    == resolve_(doc, pos)
      base  == rp.depth - 1
      par   == parentOf(rp)
      inner == IF typeAfter = "none" THEN par.type ELSE typeAfter
      index == indexAfterAt(rp, base)
  IN  /\ base >= 0
      /\ ~isolating(par.type)
      /\ canReplace_(par, indexAt(rp, rp.depth), childCount(par), << >>)
      /\ validContent_(inner, cutByIndex(par.content, indexAt(rp, rp.depth), childCount(par)))
      /\ canReplaceWith_(nodeAt(rp, base), index, index,
                        IF typeAfter = "none" THEN nodeAt(rp, base + 1).type ELSE typeAfter)

\* tr.split(pos, 1, [{type: typeAfter}])
trSplit(tr, pos, typeAfter) ==
  LET rp     == resolve_(tr.doc, pos)
      before == << copy(parentOf(rp), << >>) >>
      after  == << IF typeAfter = "none" THEN copy(parentOf(rp), << >>)
                   ELSE create(typeAfter, << >>) >>
  IN  trStep_(tr, ReplaceStep(pos, pos, Slice(before \o after, 1, 1), TRUE))

\* liftEmptyBlock that never splits the parent of the empty block.
liftEmptyBlockLiftsOnly(state, dispatch) ==
  LET cursor == resolve_(state.doc, state.selection.head)
      range  == blockRange_(state.doc, cursor.pos, cursor.pos)
      target == IF range = NoRange THEN -1 ELSE liftTarget_(state.doc, range)
  IN  IF ~hasCursor(state.selection) THEN Result(FALSE, << >>)
      ELSE IF fragSize(parentOf(cursor).content) # 0 THEN Result(FALSE, << >>)
      ELSE IF target = -1 THEN Result(FALSE, << >>)
      ELSE Result(TRUE, Dispatch(dispatch, scrollIntoView(trLift_(newTr(state), range, target))))

liftEmptyBlock(state, dispatch) ==
  LET cursor == resolve_(state.doc, state.selection.head)
      before == beforeAt(cursor, cursor.depth)
      range  == blockRange_(state.doc, cursor.pos, cursor.pos)
      target == IF range = NoRange THEN -1 ELSE liftTarget_(state.doc, range)
  IN  IF ~hasCursor(state.selection) THEN Result(FALSE, << >>)
      ELSE IF fragSize(parentOf(cursor).content) # 0 THEN Result(FALSE, << >>)
      ELSE IF /\ cursor.depth > 1
              /\ afterAt(cursor, cursor.depth) # endAt(cursor, -1)
              /\ canSplit_(state.doc, before, "none")
      THEN Result(TRUE, Dispatch(dispatch, scrollIntoView(trSplit_(newTr(state), before, "none"))))
      ELSE IF target = -1 THEN Result(FALSE, << >>)
      ELSE Result(TRUE, Dispatch(dispatch, scrollIntoView(trLift_(newTr(state), range, target))))

\* selectParentNode that selects the node around the start of the selection
\* without looking at its end.
selectParentNodeOfStart(state, dispatch) ==
  LET rf   == resolve_(state.doc, selFrom(state.selection))
  IN  IF rf.depth = 0 THEN Result(FALSE, << >>)
      ELSE Result(TRUE, Dispatch(dispatch,
             setSelection(newTr(state), NodeSelection_(state.doc, beforeAt(rf, rf.depth)))))

selectParentNode(state, dispatch) ==
  LET rf   == resolve_(state.doc, selFrom(state.selection))
      same == sharedDepth_(rf, selTo(state.selection))
  IN  IF same = 0 THEN Result(FALSE, << >>)
      ELSE Result(TRUE, Dispatch(dispatch,
             setSelection(newTr(state), NodeSelection_(state.doc, beforeAt(rf, same)))))

selectAll(state, dispatch) ==
  Result(TRUE, Dispatch(dispatch, setSelection(newTr(state), AllSelection(state.doc))))

\* $pos.marks(): the marks that text inserted at the position would get
\* (no mark of the schema is non-inclusive).
marksAt(rp) ==
  LET parent == parentOf(rp)
      index  == indexAt(rp, rp.depth)
  IN  IF fragSize(parent.content) = 0 THEN {}
      ELSE IF index > 0 THEN child(parent, index - 1).marks
      ELSE child(parent, index).marks

\* $pos.marksAcross($end)
marksAcross(rp) ==
  LET parent == parentOf(rp)
      index  == indexAt(rp, rp.depth)
  IN  IF index < childCount(parent) /\ isInline(child(parent, index).type)
      THEN child(parent, index).marks
      ELSE {}

\* tr.replaceWith(from, to, node), where the node fits as it is; a
\* replacement that has to be fitted is outside the model.
trReplaceWith(tr, from, to, node) ==
  LET rf == resolve_(tr.doc, from)
      rt == resolve_(tr.doc, to)
  IN  IF /\ startAt(rf, rf.depth) = startAt(rt, rt.depth)
         /\ canReplace_(parentOf(rf), indexAt(rf, rf.depth), indexAt(rt, rt.depth), << node >>)
      THEN trStep_(tr, ReplaceStep(from, to, Slice(<< node >>, 0, 0), FALSE))
      ELSE [tr EXCEPT !.doc = ErrorNode]

\* tr.insertText(text) for a one-character text: replaceSelectionWith the
\* text node, with the stored marks or those at the selection, and put
\* the cursor after it.
insertText(tr, ch) ==
  LET sel  == trSelection_(tr)
      rf   == resolve_(tr.doc, selFrom(sel))
      ms   == IF tr.storedMarks.set THEN tr.storedMarks.marks
              ELSE IF selEmpty(sel) THEN marksAt_(rf) ELSE marksAcross_(rf)
      tr1  == trReplaceWith_(tr, selFrom(sel), selTo(sel), MkText(ch, ms))
  IN  IF tr1.doc = ErrorNode THEN tr1
      ELSE setSelection(tr1, near_(tr1.doc, resolve_(tr1.doc, selFrom(sel) + 1), -1))

\* tr.setNodeType(pos, type): setNodeMarkup throws when the content of
\* the node is not valid for the type.
setNodeType(tr, pos, t) ==
  LET node == nodeAfter_(resolve_(tr.doc, pos))
      size == nodeSize(node)
  IN  IF node = NoNode THEN [tr EXCEPT !.doc = ErrorNode]
      ELSE IF isLeaf(node.type) THEN trReplaceWith_(tr, pos, pos + size, create(t, << >>))
      ELSE IF ~validContent_(t, node.content) THEN [tr EXCEPT !.doc = ErrorNode]
      ELSE trStep_(tr, ReplaceAroundStep(pos, pos + size, pos + 1, pos + size - 1,
                                        Slice(<< create(t, << >>) >>, 0, 0), 1, TRUE))

newlineInCode(state, dispatch) ==
  LET head   == resolve_(state.doc, state.selection.head)
      anchor == resolve_(state.doc, state.selection.anchor)
  IN  IF ~isCode(parentOf(head).type) \/ ~sameParent_(head, anchor) THEN Result(FALSE, << >>)
      ELSE Result(TRUE, Dispatch(dispatch, scrollIntoView(insertText_(newTr(state), "\n"))))

exitCode(state, dispatch) ==
  LET head   == resolve_(state.doc, state.selection.head)
      anchor == resolve_(state.doc, state.selection.anchor)
      above  == nodeAt(head, -1)
      after  == indexAfterAt(head, -1)
      type   == defaultContentType_(above, after)
      pos    == afterAt(head, head.depth)
      tr1    == trReplaceWith_(newTr(state), pos, pos, createAndFill_(type))
      tr2    == setSelection(tr1, near_(tr1.doc, resolve_(tr1.doc, pos), 1))
  IN  IF ~isCode(parentOf(head).type) \/ ~sameParent_(head, anchor) THEN Result(FALSE, << >>)
      ELSE IF ~canReplaceWith_(above, after, after, type) THEN Result(FALSE, << >>)
      ELSE Result(TRUE, Dispatch(dispatch, scrollIntoView(tr2)))

createParagraphNear(state, dispatch) ==
  LET rf   == resolve_(state.doc, selFrom(state.selection))
      rt   == resolve_(state.doc, selTo(state.selection))
      type == defaultContentType_(parentOf(rf), indexAfterAt(rt, rt.depth))
      side == IF parentOffset(rf) = 0 /\ indexAt(rt, rt.depth) < childCount(parentOf(rt))
              THEN rf.pos ELSE rt.pos
      tr1  == trReplaceWith_(newTr(state), side, side, createAndFill_(type))
      tr2  == setSelection(tr1, TextSelection(side + 1, side + 1))
  IN  IF inlineContent(parentOf(rf).type) \/ inlineContent(parentOf(rt).type)
      THEN Result(FALSE, << >>)
      ELSE IF type = "null" \/ ~isTextblock(type) THEN Result(FALSE, << >>)
      ELSE Result(TRUE, Dispatch(dispatch, scrollIntoView(tr2)))

\* splitBlock that resets the type of an empty leftover without asking its
\* parent whether it may hold a node of that type there.
splitBlockResets(state, dispatch) ==
  LET sel   == state.selection
      rf    == resolve_(state.doc, selFrom(sel))
      rt    == resolve_(state.doc, selTo(sel))
      atEnd == parentOffset(rt) = fragSize(parentOf(rt).content)
      tr1   == IF sel.kind = "text" THEN trDeleteSelection_(newTr(state)) ELSE newTr(state)
      deflt == IF rf.depth = 0 THEN "null"
               ELSE defaultContentType_(nodeAt(rf, -1), indexAfterAt(rf, -1))
      first == canSplit_(tr1.doc, rf.pos, IF atEnd THEN deflt ELSE "none")
      again == ~atEnd /\ ~first /\ canSplit_(tr1.doc, mappingMap_(tr1, rf.pos), deflt)
      types == IF atEnd \/ again THEN deflt ELSE "none"
      can   == first \/ again
      tr2   == IF can THEN trSplit_(tr1, mappingMap_(tr1, rf.pos), types) ELSE tr1
      tr3   == IF can /\ ~atEnd /\ parentOffset(rf) = 0 /\ parentOf(rf).type # deflt
               THEN setNodeType_(tr2, mappingMap_(tr2, beforeAt(rf, rf.depth)), deflt)
               ELSE tr2
  IN  IF sel.kind = "node" /\ isBlock(selNode_(state).type)
      THEN IF parentOffset(rf) = 0 \/ ~canSplit_(state.doc, rf.pos, "none")
           THEN Result(FALSE, << >>)
           ELSE Result(TRUE, Dispatch(dispatch, scrollIntoView(trSplit_(newTr(state), rf.pos, "none"))))
      ELSE Result(TRUE, Dispatch(dispatch, scrollIntoView(tr3)))

\* A splitBlock that returns false where the block cannot be split.
splitBlockOrRefuse(state, dispatch) ==
  LET sel   == state.selection
      rf    == resolve_(state.doc, selFrom(sel))
      rt    == resolve_(state.doc, selTo(sel))
      atEnd == parentOffset(rt) = fragSize(parentOf(rt).content)
      tr1   == IF sel.kind = "text" THEN trDeleteSelection_(newTr(state)) ELSE newTr(state)
      deflt == IF rf.depth = 0 THEN "null"
               ELSE defaultContentType_(nodeAt(rf, -1), indexAfterAt(rf, -1))
      first == canSplit_(tr1.doc, rf.pos, IF atEnd THEN deflt ELSE "none")
      again == ~atEnd /\ ~first /\ canSplit_(tr1.doc, mappingMap_(tr1, rf.pos), deflt)
      types == IF atEnd \/ again THEN deflt ELSE "none"
  IN  IF sel.kind = "node" /\ isBlock(selNode_(state).type)
      THEN IF parentOffset(rf) = 0 \/ ~canSplit_(state.doc, rf.pos, "none")
           THEN Result(FALSE, << >>)
           ELSE Result(TRUE, Dispatch(dispatch, scrollIntoView(trSplit_(newTr(state), rf.pos, "none"))))
      ELSE IF ~(first \/ again) THEN Result(FALSE, << >>)
      ELSE Result(TRUE, Dispatch(dispatch,
                    scrollIntoView(trSplit_(tr1, mappingMap_(tr1, rf.pos), types))))

\* A splitBlock that gives the new block the default type wherever it splits.
splitBlockDefaultType(state, dispatch) ==
  LET sel   == state.selection
      rf    == resolve_(state.doc, selFrom(sel))
      tr1   == IF sel.kind = "text" THEN trDeleteSelection_(newTr(state)) ELSE newTr(state)
      deflt == IF rf.depth = 0 THEN "null"
               ELSE defaultContentType_(nodeAt(rf, -1), indexAfterAt(rf, -1))
      can   == canSplit_(tr1.doc, mappingMap_(tr1, rf.pos), deflt)
      tr2   == IF can THEN trSplit_(tr1, mappingMap_(tr1, rf.pos), deflt) ELSE tr1
  IN  IF sel.kind = "node" /\ isBlock(selNode_(state).type)
      THEN IF parentOffset(rf) = 0 \/ ~canSplit_(state.doc, rf.pos, "none")
           THEN Result(FALSE, << >>)
           ELSE Result(TRUE, Dispatch(dispatch, scrollIntoView(trSplit_(newTr(state), rf.pos, "none"))))
      ELSE Result(TRUE, Dispatch(dispatch, scrollIntoView(tr2)))

\* splitBlock that always gives the block after the split the type of the
\* block it splits, and never retypes the block before it.
splitBlockSameType(state, dispatch) ==
  LET sel   == state.selection
      rf    == resolve_(state.doc, selFrom(sel))
      tr1   == IF sel.kind = "text" THEN trDeleteSelection_(newTr(state)) ELSE newTr(state)
      can   == canSplit_(tr1.doc, rf.pos, "none")
      tr2   == IF can THEN trSplit_(tr1, mappingMap_(tr1, rf.pos), "none") ELSE tr1
  IN  IF sel.kind = "node" /\ isBlock(selNode_(state).type)
      THEN IF parentOffset(rf) = 0 \/ ~canSplit_(state.doc, rf.pos, "none")
           THEN Result(FALSE, << >>)
           ELSE Result(TRUE, Dispatch(dispatch, scrollIntoView(trSplit_(newTr(state), rf.pos, "none"))))
      ELSE Result(TRUE, Dispatch(dispatch, scrollIntoView(tr2)))

\* splitBlock that retypes the block before the split whenever the split is
\* at the start of a textblock that is not of the default type.
splitBlockAlwaysRetypes(state, dispatch) ==
  LET sel   == state.selection
      rf    == resolve_(state.doc, selFrom(sel))
      rt    == resolve_(state.doc, selTo(sel))
      atEnd == parentOffset(rt) = fragSize(parentOf(rt).content)
      tr1   == IF sel.kind = "text" THEN trDeleteSelection_(newTr(state)) ELSE newTr(state)
      deflt == IF rf.depth = 0 THEN "null"
               ELSE defaultContentType_(nodeAt(rf, -1), indexAfterAt(rf, -1))
      first == canSplit_(tr1.doc, rf.pos, IF atEnd THEN deflt ELSE "none")
      again == ~atEnd /\ ~first /\ canSplit_(tr1.doc, mappingMap_(tr1, rf.pos), deflt)
      types == IF atEnd \/ again THEN deflt ELSE "none"
      can   == first \/ again
      tr2   == IF can THEN trSplit_(tr1, mappingMap_(tr1, rf.pos), types) ELSE tr1
      tr3   == IF can /\ ~atEnd /\ parentOffset(rf) = 0 /\ parentOf(rf).type # deflt
               THEN setNodeType_(tr2, mappingMap_(tr2, beforeAt(rf, rf.depth)), deflt)
               ELSE tr2
  IN  IF sel.kind = "node" /\ isBlock(selNode_(state).type)
      THEN IF parentOffset(rf) = 0 \/ ~canSplit_(state.doc, rf.pos, "none")
           THEN Result(FALSE, << >>)
           ELSE Result(TRUE, Dispatch(dispatch, scrollIntoView(trSplit_(newTr(state), rf.pos, "none"))))
      ELSE Result(TRUE, Dispatch(dispatch, scrollIntoView(tr3)))

splitBlock(state, dispatch) ==
  LET sel   == state.selection
      rf    == resolve_(state.doc, selFrom(sel))
      rt    == resolve_(state.doc, selTo(sel))
      atEnd == parentOffset(rt) = fragSize(parentOf(rt).content)
      tr1   == IF sel.kind = "text" THEN trDeleteSelection_(newTr(state)) ELSE newTr(state)
      deflt == IF rf.depth = 0 THEN "null"
               ELSE defaultContentType_(nodeAt(rf, -1), indexAfterAt(rf, -1))
      first == canSplit_(tr1.doc, rf.pos, IF atEnd THEN deflt ELSE "none")
      again == ~atEnd /\ ~first /\ canSplit_(tr1.doc, mappingMap_(tr1, rf.pos), deflt)
      types == IF atEnd \/ again THEN deflt ELSE "none"
      can   == first \/ again
      tr2   == IF can THEN trSplit_(tr1, mappingMap_(tr1, rf.pos), types) ELSE tr1
      tr3   == IF /\ can /\ ~atEnd /\ parentOffset(rf) = 0 /\ parentOf(rf).type # deflt
                  /\ canReplace_(nodeAt(rf, -1), indexAt(rf, -1), indexAfterAt(rf, -1),
                                << create(deflt, << >>), parentOf(rf) >>)
               THEN setNodeType_(tr2, mappingMap_(tr2, beforeAt(rf, rf.depth)), deflt)
               ELSE tr2
  IN  IF sel.kind = "node" /\ isBlock(selNode_(state).type)
      THEN IF parentOffset(rf) = 0 \/ ~canSplit_(state.doc, rf.pos, "none")
           THEN Result(FALSE, << >>)
           ELSE Result(TRUE, Dispatch(dispatch, scrollIntoView(trSplit_(newTr(state), rf.pos, "none"))))
      ELSE Result(TRUE, Dispatch(dispatch, scrollIntoView(tr3)))

\* tr.ensureMarks(marks)
ensureMarks(tr, ms) ==
  LET cur == IF tr.storedMarks.set THEN tr.storedMarks.marks
             ELSE marksAt_(resolve_(tr.doc, selFrom(trSelection_(tr))))
  IN  IF cur # ms THEN [tr EXCEPT !.storedMarks = StoredMarks(ms)] ELSE tr

\* splitBlock with a dispatch that first makes the transaction keep the
\* marks: the stored ones or, off the start of the block, those at $from.
splitBlockKeepMarks(state, dispatch) ==
  LET rf    == resolve_(state.doc, selFrom(state.selection))
      rt    == resolve_(state.doc, selTo(state.selection))
      has   == state.storedMarks.set \/ parentOffset(rt) # 0
      marks == IF state.storedMarks.set THEN state.storedMarks.marks ELSE marksAt_(rf)
      r     == splitBlock_(state, dispatch)
  IN  [r EXCEPT !.trs = [i \in DOMAIN r.trs |->
                           IF has THEN ensureMarks_(r.trs[i], marks) ELSE r.trs[i]]]

\* findWrapping(range, nodeType): the wrapper types around and inside
\* nodeType that make the range fit in it, outermost first.
findWrappingOutside(doc, range, t) ==
  LET rf         == resolve_(doc, range.from)
      rt         == resolve_(doc, range.to)
      parent     == nodeAt(rf, range.depth)
      startIndex == indexAt(rf, range.depth)
      endIndex   == indexAfterAt(rt, range.depth)
      around     == matchFindWrapping_(contentMatchAt_(parent, startIndex), t)
      outer      == IF around.conn # << >> THEN around.conn[1] ELSE t
  IN  IF around.found /\ canReplaceWith_(parent, startIndex, endIndex, outer)
      THEN around ELSE [found |-> FALSE, conn |-> << >>]

matchChildren(m, parent, i, endIndex) ==
  IF m = NoMatch \/ i >= endIndex THEN m
  ELSE matchChildren_(matchType_(m, child(parent, i).type), parent, i + 1, endIndex)

findWrappingInside(doc, range, t) ==
  LET rf         == resolve_(doc, range.from)
      rt         == resolve_(doc, range.to)
      parent     == nodeAt(rf, range.depth)
      startIndex == indexAt(rf, range.depth)
      endIndex   == indexAfterAt(rt, range.depth)
      inside     == matchFindWrapping_(contentMatch(t), child(parent, startIndex).type)
      lastType   == IF inside.conn # << >> THEN inside.conn[Len(inside.conn)] ELSE t
      innerMatch == matchChildren_(contentMatch(lastType), parent, startIndex, endIndex)
  IN  IF inside.found /\ innerMatch # NoMatch /\ validEnd(innerMatch)
      THEN inside ELSE [found |-> FALSE, conn |-> << >>]

findWrapping(doc, range, t) ==
  LET around == findWrappingOutside_(doc, range, t)
      inner  == IF around.found THEN findWrappingInside_(doc, range, t)
                ELSE [found |-> FALSE, conn |-> << >>]
  IN  [found |-> inner.found, conn |-> around.conn \o << t >> \o inner.conn]

\* tr.wrap(range, wrappers)
trWrap(tr, range, wrappers) ==
  LET start == beforeAt(resolve_(tr.doc, range.from), range.depth + 1)
      end   == afterAt(resolve_(tr.doc, range.to), range.depth + 1)
  IN  trStep_(tr, ReplaceAroundStep(start, end, start, end,
                                   Slice(wrapChain(wrappers, Len(wrappers), << >>), 0, 0),
                                   Len(wrappers), TRUE))

wrapIn(nodeType, state, dispatch) ==
  LET range    == blockRange_(state.doc, selFrom(state.selection), selTo(state.selection))
      wrapping == IF range = NoRange THEN [found |-> FALSE, conn |-> << >>]
                  ELSE findWrapping_(state.doc, range, nodeType)
  IN  IF ~wrapping.found THEN Result(FALSE, << >>)
      ELSE Result(TRUE, Dispatch(dispatch, scrollIntoView(trWrap_(newTr(state), range, wrapping.conn))))

setBlockType(nodeType, state, dispatch) ==
  LET sel     == state.selection
      rf      == resolve_(state.doc, selFrom(sel))
      rt      == resolve_(state.doc, selTo(sel))
      nodeSel == sel.kind = "node"
      depth   == IF nodeSel THEN rf.depth ELSE rf.depth - 1
      target  == IF nodeSel THEN selNode_(state) ELSE parentOf(rf)
      index   == indexAt(rf, depth)
      where   == beforeAt(rf, depth + 1)
  IN  IF ~nodeSel /\ (rf.depth = 0 \/ rt.pos > endAt(rf, rf.depth)) THEN Result(FALSE, << >>)
      ELSE IF ~isTextblock(target.type) \/ target.type = nodeType THEN Result(FALSE, << >>)
      ELSE IF ~canReplaceWith_(nodeAt(rf, depth), index, index + 1, nodeType)
      THEN Result(FALSE, << >>)
      ELSE Result(TRUE, Dispatch(dispatch,
             scrollIntoView(setNodeType_(
               clearNonMatching_(newTr(state), where, nodeType, contentMatch(nodeType)),
               where, nodeType))))

\* The inline nodes that doc.nodesBetween(from, to) visits, in order, each
\* with its position and the type of its parent.
inlineBetween(f, pos, parentType, from, to) ==
  IF f = << >> \/ pos >= to THEN << >>
  ELSE LET c   == Head(f)
           end == pos + nodeSize(c)
       IN  (IF end <= from THEN << >>
            ELSE IF isInline(c.type)
            THEN << [pos |-> pos, end |-> end, marks |-> c.marks, parent |-> parentType] >>
            ELSE inlineBetween_(c.content, pos + 1, c.type, from, to))
           \o inlineBetween_(Tail(f), end, parentType, from, to)

\* Whether nodesBetween(from, to) visits a node that takes marks of the type.
takesMarkBetween(f, pos, from, to, mk) ==
  IF f = << >> \/ pos >= to THEN FALSE
  ELSE LET c   == Head(f)
           end == pos + nodeSize(c)
       IN  \/ /\ end > from
              /\ \/ inlineContent(c.type) /\ allowsMarkType(c.type, mk)
                 \/ ~isLeaf(c.type) /\ takesMarkBetween_(c.content, pos + 1, from, to, mk)
           \/ takesMarkBetween_(Tail(f), end, from, to, mk)

markApplies(doc, from, to, mk) ==
  \/ resolve_(doc, from).depth = 0 /\ allowsMarkType(doc.type, mk)
  \/ takesMarkBetween_(doc.content, 0, from, to, mk)

\* doc.rangeHasMark(from, to, type)
rangeHasMark(doc, from, to, mk) ==
  to > from /\ \E i \in DOMAIN inlineBetween_(doc.content, 0, "doc", from, to) :
                 mk \in inlineBetween_(doc.content, 0, "doc", from, to)[i].marks

AddMarkStep(from, to, mark) ==
  [kind |-> "addMark", from |-> from, to |-> to, gapFrom |-> 0, gapTo |-> 0,
   slice |-> Slice(<< >>, 0, 0), insert |-> 0, structure |-> FALSE, mark |-> mark]

\* tr.addMark(from, to, mark): a step for each run of adjacent inline
\* nodes that lack the mark and whose parent allows it.
addMarkSteps(nodes, from, to, mk, acc) ==
  IF nodes = << >> THEN acc
  ELSE LET n     == Head(nodes)
           start == IF n.pos > from THEN n.pos ELSE from
           end   == IF n.end < to THEN n.end ELSE to
           last  == Len(acc)
       IN  IF mk \in n.marks \/ ~allowsMarkType(n.parent, mk)
           THEN addMarkSteps_(Tail(nodes), from, to, mk, acc)
           ELSE IF last > 0 /\ acc[last].to = start
           THEN addMarkSteps_(Tail(nodes), from, to, mk, [acc EXCEPT ![last].to = end])
           ELSE addMarkSteps_(Tail(nodes), from, to, mk, Append(acc, AddMarkStep(start, end, mk)))

trAddMark(tr, from, to, mk) ==
  trSteps_(tr, addMarkSteps_(inlineBetween_(tr.doc.content, 0, tr.doc.type, from, to),
                           from, to, mk, << >>))

\* tr.removeMark(from, to, markType): a step for each run of successive
\* inline nodes that have the mark.
removeMarkSteps(nodes, from, to, mk, running, acc) ==
  IF nodes = << >> THEN acc
  ELSE LET n     == Head(nodes)
           start == IF n.pos > from THEN n.pos ELSE from
           end   == IF n.end < to THEN n.end ELSE to
           last  == Len(acc)
       IN  IF mk \notin n.marks
           THEN removeMarkSteps_(Tail(nodes), from, to, mk, FALSE, acc)
           ELSE IF running
           THEN removeMarkSteps_(Tail(nodes), from, to, mk, TRUE, [acc EXCEPT ![last].to = end])
           ELSE removeMarkSteps_(Tail(nodes), from, to, mk, TRUE,
                                Append(acc, RemoveMarkStep(start, end, mk)))

trRemoveMark(tr, from, to, mk) ==
  trSteps_(tr, removeMarkSteps_(inlineBetween_(tr.doc.content, 0, tr.doc.type, from, to),
                              from, to, mk, FALSE, << >>))

\* tr.addStoredMark(mark) and tr.removeStoredMark(markType)
addStoredMark(tr, mk) ==
  ensureMarks_(tr, (IF tr.storedMarks.set THEN tr.storedMarks.marks
                   ELSE marksAt_(resolve_(tr.doc, trSelection_(tr).head))) \cup {mk})
removeStoredMark(tr, mk) ==
  ensureMarks_(tr, (IF tr.storedMarks.set THEN tr.storedMarks.marks
                   ELSE marksAt_(resolve_(tr.doc, trSelection_(tr).head))) \ {mk})

\* toggleMark that adds the mark to a range whether or not the range has it.
toggleMarkAdds(markType, state, dispatch) ==
  LET sel    == state.selection
      from   == selFrom(sel)
      to     == selTo(sel)
      cursor == resolve_(state.doc, sel.head)
      active == IF state.storedMarks.set THEN state.storedMarks.marks ELSE marksAt_(cursor)
  IN  IF (selEmpty(sel) /\ ~hasCursor(sel)) \/ ~markApplies_(state.doc, from, to, markType)
      THEN Result(FALSE, << >>)
      ELSE IF hasCursor(sel)
      THEN IF markType \in active
           THEN Result(TRUE, Dispatch(dispatch, removeStoredMark_(newTr(state), markType)))
           ELSE Result(TRUE, Dispatch(dispatch, addStoredMark_(newTr(state), markType)))
      ELSE Result(TRUE, Dispatch(dispatch, scrollIntoView(
             trAddMark_(newTr(state), from, to, markType))))

\* toggleMark that, at a cursor, looks at the marks at the cursor and not at
\* the stored marks.
toggleMarkIgnoresStored(markType, state, dispatch) ==
  LET sel    == state.selection
      from   == selFrom(sel)
      to     == selTo(sel)
      cursor == resolve_(state.doc, sel.head)
      has    == rangeHasMark_(state.doc, from, to, markType)
  IN  IF (selEmpty(sel) /\ ~hasCursor(sel)) \/ ~markApplies_(state.doc, from, to, markType)
      THEN Result(FALSE, << >>)
      ELSE IF hasCursor(sel)
      THEN IF markType \in marksAt_(cursor)
           THEN Result(TRUE, Dispatch(dispatch, removeStoredMark_(newTr(state), markType)))
           ELSE Result(TRUE, Dispatch(dispatch, addStoredMark_(newTr(state), markType)))
      ELSE Result(TRUE, Dispatch(dispatch, scrollIntoView(
             IF has THEN trRemoveMark_(newTr(state), from, to, markType)
             ELSE trAddMark_(newTr(state), from, to, markType))))

toggleMark(markType, state, dispatch) ==
  LET sel    == state.selection
      from   == selFrom(sel)
      to     == selTo(sel)
      cursor == resolve_(state.doc, sel.head)
      active == IF state.storedMarks.set THEN state.storedMarks.marks ELSE marksAt_(cursor)
      has    == rangeHasMark_(state.doc, from, to, markType)
  IN  IF (selEmpty(sel) /\ ~hasCursor(sel)) \/ ~markApplies_(state.doc, from, to, markType)
      THEN Result(FALSE, << >>)
      ELSE IF hasCursor(sel)
      THEN IF markType \in active
           THEN Result(TRUE, Dispatch(dispatch, removeStoredMark_(newTr(state), markType)))
           ELSE Result(TRUE, Dispatch(dispatch, addStoredMark_(newTr(state), markType)))
      ELSE Result(TRUE, Dispatch(dispatch, scrollIntoView(
             IF has THEN trRemoveMark_(newTr(state), from, to, markType)
             ELSE trAddMark_(newTr(state), from, to, markType))))

\* The ranges that the steps of a transaction replaced, as positions of
\* its final document: each map's ranges, mapped through the later maps.
RECURSIVE newRanges(_, _, _)
newRanges(map, j, diff) ==
  IF j > Len(map) THEN << >>
  ELSE << map[j][1] + diff, map[j][1] + diff + map[j][3] >>
       \o newRanges(map, j + 1, diff + map[j][3] - map[j][2])
changedRanges(maps, i, ranges) ==
  IF i > Len(maps) THEN ranges
  ELSE changedRanges_(maps, i + 1,
         [j \in DOMAIN ranges |-> mapRanges_(maps[i], 1, 0, ranges[j], 1).pos]
         \o newRanges(maps[i], 1, 0))

\* The boundaries between children of the parent of a range, inside the
\* range, whose sides have the same type, a joinable one.
joinableIn(parent, index, pos, to, types, acc) ==
  IF pos > to \/ index >= childCount(parent) THEN acc
  ELSE LET after == child(parent, index)
           found == /\ index > 0 /\ pos \notin acc
                    /\ child(parent, index - 1).type = after.type
                    /\ child(parent, index - 1).type \in types
       IN  joinableIn_(parent, index + 1, pos + nodeSize(after), to, types,
                      IF found THEN acc \cup {pos} ELSE acc)

joinablePoints(doc, ranges, i, types, acc) ==
  IF i > Len(ranges) THEN acc
  ELSE LET rf    == resolve_(doc, ranges[i])
           depth == sharedDepth_(rf, ranges[i + 1])
       IN  joinablePoints_(doc, ranges, i + 2, types,
             joinableIn_(nodeAt(rf, depth), indexAfterAt(rf, depth), afterAt(rf, depth + 1),
                        ranges[i + 1], types, acc))

\* The joins of the joinable points, from the last to the first.
joinPoints(tr, points) ==
  IF points = {} THEN tr
  ELSE LET pos == CHOOSE q \in points : \A r \in points : r <= q
       IN  joinPoints_(IF canJoin_(tr.doc, pos) THEN trJoin_(tr, pos) ELSE tr, points \ {pos})

\* A wrapped dispatch that looks for joinable points in the whole document
\* instead of the ranges that the steps touched.
wrapDispatchJoinsAll(tr, types) ==
  joinPoints_(tr, joinablePoints_(tr.doc, << 0, nodeSize(tr.doc) - 2 >>, 1, types, {}))

\* The transaction that the dispatch wrapped by wrapDispatchForJoin hands on.
wrapDispatchForJoin(tr, types) ==
  IF ~isGeneric(tr) THEN tr
  ELSE joinPoints_(tr, joinablePoints_(tr.doc, changedRanges_(tr.maps, 1, << >>), 1, types, {}))

\* autoJoin(command, isJoinable)(state, dispatch), for the result r of
\* command(state, dispatch && wrapDispatchForJoin(dispatch, isJoinable)).
autoJoin(r, types) ==
  [r EXCEPT !.trs = [i \in DOMAIN r.trs |-> wrapDispatchForJoin_(r.trs[i], types)]]

\* ------------------------------------------------------------------------
\* Calling commands
\* ------------------------------------------------------------------------

\* A command is named by a sequence: the name of the exported function,
\* followed by its arguments if it is one that builds a command.  The
\* commands that take no argument:
Commands ==
  { << "deleteSelection" >>, << "joinBackward" >>, << "selectNodeBackward" >>,
    << "joinForward" >>, << "selectNodeForward" >>, << "joinUp" >>, << "joinDown" >>,
    << "lift" >>, << "newlineInCode" >>, << "exitCode" >>, << "createParagraphNear" >>,
    << "liftEmptyBlock" >>, << "splitBlock" >>, << "splitBlockKeepMarks" >>,
    << "selectParentNode" >>, << "selectAll" >> }

\* The node types autoJoin is given as joinable.
JoinTypes == { "bullet_list", "ordered_list", "blockquote" }

\* command(state, dispatch, view), with the call entered in the trace.
run(c, state, dispatch, view) ==
  Logged(c, dispatch, view,
    CASE c[1] = "deleteSelection"     -> deleteSelection_(state, dispatch)
      [] c[1] = "joinBackward"        -> joinBackward_(state, dispatch, view)
      [] c[1] = "selectNodeBackward"  -> selectNodeBackward_(state, dispatch, view)
      [] c[1] = "joinForward"         -> joinForward_(state, dispatch, view)
      [] c[1] = "selectNodeForward"   -> selectNodeForward_(state, dispatch, view)
      [] c[1] = "joinUp"              -> joinUp_(state, dispatch)
      [] c[1] = "joinDown"            -> joinDown_(state, dispatch)
      [] c[1] = "lift"                -> lift_(state, dispatch)
      [] c[1] = "newlineInCode"       -> newlineInCode_(state, dispatch)
      [] c[1] = "exitCode"            -> exitCode_(state, dispatch)
      [] c[1] = "createParagraphNear" -> createParagraphNear_(state, dispatch)
      [] c[1] = "liftEmptyBlock"      -> liftEmptyBlock_(state, dispatch)
      [] c[1] = "splitBlock"          -> splitBlock_(state, dispatch)
      [] c[1] = "splitBlockKeepMarks" -> splitBlockKeepMarks_(state, dispatch)
      [] c[1] = "selectParentNode"    -> selectParentNode_(state, dispatch)
      [] c[1] = "selectAll"           -> selectAll(state, dispatch)
      [] c[1] = "wrapIn"              -> wrapIn_(c[2], state, dispatch)
      [] c[1] = "setBlockType"        -> setBlockType_(c[2], state, dispatch)
      [] c[1] = "toggleMark"          -> toggleMark_(c[2], state, dispatch)
      [] c[1] = "autoJoin"            -> autoJoin_(run_(Tail(c), state, dispatch, NoView), JoinTypes))

\* chainCommands(...commands)(state, dispatch, view)
chainFrom(commands, i, state, dispatch, view, acc) ==
  IF i > Len(commands) THEN [acc EXCEPT !.ret = FALSE]
  ELSE LET r == run_(commands[i], state, dispatch, view)
           a == [ret |-> r.ret, trs |-> acc.trs \o r.trs, calls |-> acc.calls \o r.calls]
       IN  IF r.ret THEN a ELSE chainFrom_(commands, i + 1, state, dispatch, view, a)

\* chainCommands that goes on to the next command whatever the last returned.
RECURSIVE chainAllFrom(_, _, _, _, _, _)
chainAllFrom(commands, i, state, dispatch, view, acc) ==
  IF i > Len(commands) THEN acc
  ELSE LET r == run_(commands[i], state, dispatch, view)
       IN  chainAllFrom(commands, i + 1, state, dispatch, view,
             [ret |-> acc.ret \/ r.ret, trs |-> acc.trs \o r.trs, calls |-> acc.calls \o r.calls])

chainCommandsAll(commands, state, dispatch, view) ==
  chainAllFrom(commands, 1, state, dispatch, view, Result(FALSE, << >>))

chainCommands(commands, state, dispatch, view) ==
  chainFrom_(commands, 1, state, dispatch, view, Result(FALSE, << >>))

\* The chains of the base keymap.
backspace == << << "deleteSelection" >>, << "joinBackward" >>, << "selectNodeBackward" >> >>
del       == << << "deleteSelection" >>, << "joinForward" >>, << "selectNodeForward" >> >>
enter     == << << "newlineInCode" >>, << "createParagraphNear" >>,
                << "liftEmptyBlock" >>, << "splitBlock" >> >>

\* The keys that baseKeymap binds to a chain of commands.
baseKeymap == [ Enter |-> enter, Backspace |-> backspace, Delete |-> del ]

\* What the editor calls: a command, or the chain a key is bound to.
call(c, state, dispatch, view) ==
  IF c[1] = "chainCommands" THEN chainCommands_(baseKeymap[c[2]], state, dispatch, view)
  ELSE run_(c, state, dispatch, view)

\* ------------------------------------------------------------------------
\* The editor: a state, and commands called on it
\* ------------------------------------------------------------------------

\* Length of the texts of the documents the editor starts with.
TextLen == 2
\* Number of calls made on the editor.
MaxCalls == 1

Hi == SubSeq(<< "h", "i", "j" >>, 1, TextLen)
Th == SubSeq(<< "t", "u", "v" >>, 1, TextLen)
Marked(chars, ms) == [i \in 1..Len(chars) |-> MkText(chars[i], ms)]

\* The documents the editor starts with: those of the tests of the
\* commands, over short texts.
StartDocs ==
  { Doc(<< P(Txt(Hi)), P(Txt(Th)) >>),
    Doc(<< P(Txt(Hi)), Blockquote(<< P(Txt(Th)) >>) >>),
    Doc(<< Blockquote(<< P(Txt(Hi)) >>), P(Txt(Th)) >>),
    Doc(<< Blockquote(<< P(Txt(Hi)) >>), Blockquote(<< P(Txt(Th)) >>) >>),
    Doc(<< Blockquote(<< P(Txt(Hi)) >>), Ul(<< Li(<< P(Txt(Th)) >>) >>) >>),
    Doc(<< Ul(<< Li(<< P(Txt(Hi)) >>) >>), P(Txt(Th)) >>),
    Doc(<< Ul(<< Li(<< P(Txt(Hi)) >>) >>), Blockquote(<< P(Txt(Th)) >>) >>),
    Doc(<< Ul(<< Li(<< P(Txt(Hi)) >>), Li(<< P(Txt(Th)) >>) >>) >>),
    Doc(<< Ul(<< Li(<< P(Txt(Hi)) >>) >>), Ul(<< Li(<< P(Txt(Th)) >>) >>) >>),
    Doc(<< Ul(<< Li(<< P(Txt(Hi)) >>) >>), P(Txt(Th)), Ul(<< Li(<< P(Txt(<< "x" >>)) >>) >>) >>),
    Doc(<< Ul(<< Li(<< P(Txt(Hi)) >>) >>), P(Txt(Th)), Ol(<< Li(<< P(Txt(<< "x" >>)) >>) >>) >>),
    Doc(<< Ul(<< Li(<< P(Txt(Th)) >>) >>) >>),
    Doc(<< Ul(<< Li(<< P(Txt(<< "a" >>)), P(Txt(<< "b" >>)) >>) >>) >>),
    Doc(<< Ul(<< Li(<< P(<< >>), H1(Txt(Hi)) >>) >>) >>),
    Doc(<< P(Txt(Hi)), Ul(<< Li(<< P(Txt(Th)), Ul(<< Li(<< P(Txt(<< "x" >>)) >>) >>) >>) >>) >>),
    Doc(<< P(Txt(<< "a" >>)), Ul(<< Li(<< P(<< >>), Ul(<< Li(<< P(Txt(<< "b" >>)) >>) >>) >>) >>) >>),
    Doc(<< Hr, P(Txt(Th)) >>),
    Doc(<< Hr, Blockquote(<< P(Txt(Th)) >>) >>),
    Doc(<< P(Txt(Hi)), Hr, P(Txt(Th)) >>),
    Doc(<< Blockquote(<< P(Txt(Hi)) >>), Hr >>),
    Doc(<< Ul(<< Li(<< P(Txt(Hi)) >>) >>), Hr >>),
    Doc(<< Blockquote(<< Hr, P(Txt(Th)) >>) >>),
    Doc(<< P(<< >>), Hr >>),
    Doc(<< P(Txt(<< "x" >>)), P(<< >>), H1(Txt(Hi)) >>),
    Doc(<< H1(Txt(Hi)), H1(Txt(<< "x" >>)) >>),
    Doc(<< H1(Txt(<< "x" >>)), H1(<< >>) >>),
    Doc(<< Hr, P(<< >>) >>),
    Doc(<< Pre(Txt(Hi)), P(Marked(Th, {"em"}) \o << Img >>) >>),
    Doc(<< H1(Marked(Hi, {"em"})), P(Txt(<< "a" >>) \o Marked(<< "b" >>, {"strong"})) >>),
    Doc(<< Blockquote(<< P(Txt(Hi)), P(<< >>), P(Txt(Th)) >>) >>),
    Doc(<< Blockquote(<< P(Txt(Hi)), P(<< >>) >>) >>),
    Doc(<< Blockquote(<< P(<< >>), P(Txt(Th)) >>) >>),
    Doc(<< Ul(<< Li(<< P(Txt(Hi)) >>), Li(<< P(<< >>) >>) >>) >>),
    Doc(<< Aside(<< P(Txt(Hi)) >>), P(Txt(Th)) >>),
    Doc(<< P(Txt(Hi)), Aside(<< P(Txt(Th)) >>) >>),
    Doc(<< Blockquote(<< P(Txt(Hi)) >>), Aside(<< P(Txt(Th)) >>) >>),
    Doc(<< Aside(<< P(Txt(Hi)) >>), Blockquote(<< P(Txt(Th)) >>) >>),
    HDoc(<< HH(Txt(Hi)) >>),
    TDoc(<< Title(Txt(Hi)), P(Txt(<< "x" >>)) >>),
    Doc(<< P(Txt(Th)) >>) }

\* The selections a document admits: a cursor in a textblock, a text
\* selection inside one textblock, a selection of a node, or all of it.
StartSelections(doc) ==
  LET size == fragSize(doc.content)
      rs(p) == resolve_(doc, p)
      inText(p) == inlineContent(parentOf(rs(p)).type)
  IN  { TextSelection(p, p) : p \in { q \in 0..size : inText(q) } }
      \cup { TextSelection(p[1], p[2]) :
               p \in { q \in (0..size) \X (0..size) :
                         /\ q[1] < q[2] /\ inText(q[1]) /\ inText(q[2])
                         /\ startAt(rs(q[1]), rs(q[1]).depth) = startAt(rs(q[2]), rs(q[2]).depth) } }
      \cup { TextSelection(p[1], p[2]) :
               p \in { q \in (0..size) \X (0..size) :
                         /\ q[1] < q[2] /\ inText(q[1]) /\ inText(q[2])
                         /\ parentOffset(rs(q[1])) > 0
                         /\ spansSiblings(rs(q[1]), rs(q[2])) } }
      \cup { NodeSelection_(doc, p) : p \in { q \in 0..size : isSelectable(nodeAfter_(rs(q))) } }
      \cup { AllSelection(doc) }

Views == { NoView, View(TRUE), View(FALSE) }

\* ------------------------------------------------------------------------
\* Word-wise deletion: deleteWordBefore and moveBackward of src/index.js,
\* with charCategory of src/src/char.js
\* ------------------------------------------------------------------------

\* The characters of the texts: a letter, a blank, a comma, and "~" for a
\* combining accent, a character that extends the one before it.
WordChars == { "a", " ", ",", "~" }

\* isExtendingChar of the extending-char package.
isExtendingChar(ch) == ch = "~"

\* isWordChar(ch): \w, or beyond ASCII an extending character or a letter.
isWordChar(ch) == ch = "a" \/ isExtendingChar(ch)

\* charCategory(ch)
charCategory(ch) ==
  IF ch = " " THEN "space" ELSE IF isWordChar(ch) THEN "word" ELSE "other"

\* The loop of moveBackward: parent.childBefore(offset) is the inline node
\* that ends at the offset; cat is "null" until a character was seen.
RECURSIVE moveBackwardFrom(_, _, _, _, _, _)
moveBackwardFrom(parent, offset, pos, by, cat, counted) ==
  IF offset = 0 THEN pos
  ELSE LET node == child(parent, offset - 1)
           next == charCategory(node.ch)
       IN  IF ~isText(node.type) THEN (IF cat # "null" THEN pos ELSE pos - 1)
           ELSE IF by = "char"
           THEN IF ~isExtendingChar(node.ch) THEN pos - 1
                ELSE moveBackwardFrom(parent, offset - 1, pos - 1, by, cat, counted)
           ELSE IF cat = "null" \/ (counted = 1 /\ cat = "space")
           THEN moveBackwardFrom(parent, offset - 1, pos - 1, by, next, counted + 1)
           ELSE IF cat # next THEN pos
           ELSE moveBackwardFrom(parent, offset - 1, pos - 1, by, cat, counted + 1)

\* What a call of moveBackward gives: a position, or a RangeError raised.
Moved(pos) == [raised |-> FALSE, pos |-> pos]
RangeError == [raised |-> TRUE, pos |-> -1]

\* A moveBackward without the rule for a blank before the position: the run
\* of the category of the character before it.
moveBackwardOneRun(rp, by) ==
  IF by # "char" /\ by # "word" THEN RangeError
  ELSE Moved(moveBackwardFrom(parentOf(rp), parentOffset(rp), rp.pos, by, "null", 2))

\* moveBackward($pos, by)
moveBackward(rp, by) ==
  IF by # "char" /\ by # "word" THEN RangeError
  ELSE Moved(moveBackwardFrom(parentOf(rp), parentOffset(rp), rp.pos, by, "null", 0))

\* deleteWordBefore(state, apply): false, true for apply === false, or the
\* action of the transaction, which view.dispatch then applies.
deleteWordBefore(state, apply) ==
  LET head == resolve_(state.doc, state.selection.head)
      dest == moveBackward(head, "word").pos
  IN  IF ~selEmpty(state.selection) \/ parentOffset(head) = 0 THEN Result(FALSE, << >>)
      ELSE Result(TRUE, Dispatch(apply, scrollIntoView(trDelete_(newTr(state), dest, head.pos))))

\* ------------------------------------------------------------------------
\* The functions above by name: what a call f_(...) evaluates
\* ------------------------------------------------------------------------

invoke(f, a, b, c, d, e, g) ==
  CASE f = "ExpandEdges" -> ExpandEdges(a, b)
    [] f = "Edges" -> Edges(a)
    [] f = "findIndex" -> findIndex(a, b)
    [] f = "resolvePath" -> resolvePath(a, b, c)
    [] f = "resolve" -> resolve(a, b)
    [] f = "nodeAfter" -> nodeAfter(a)
    [] f = "nodeBefore" -> nodeBefore(a)
    [] f = "sharedDepthFrom" -> sharedDepthFrom(a, b, c)
    [] f = "sharedDepth" -> sharedDepth(a, b)
    [] f = "sameParent" -> sameParent(a, b)
    [] f = "matchType" -> matchType(a, b)
    [] f = "matchFragment" -> matchFragment(a, b, c, d)
    [] f = "contentMatchAt" -> contentMatchAt(a, b)
    [] f = "canReplace" -> canReplace(a, b, c, d)
    [] f = "canReplaceWith" -> canReplaceWith(a, b, c, d)
    [] f = "compatible" -> compatible(a, b)
    [] f = "compatibleContent" -> compatibleContent(a, b)
    [] f = "defaultType" -> defaultType(a)
    [] f = "defaultContentType" -> defaultContentType(a, b)
    [] f = "pushWrappers" -> pushWrappers(a, b, c, d, e)
    [] f = "computeWrapping" -> computeWrapping(a, b, c)
    [] f = "matchFindWrapping" -> matchFindWrapping(a, b)
    [] f = "cutFrom" -> cutFrom(a, b, c, d, e)
    [] f = "fragCut" -> fragCut(a, b, c)
    [] f = "close" -> close(a, b)
    [] f = "joinable" -> joinable(a, b, c)
    [] f = "replaceTwoWay" -> replaceTwoWay(a, b, c)
    [] f = "replaceThreeWay" -> replaceThreeWay(a, b, c, d, e)
    [] f = "prepareSliceForReplace" -> prepareSliceForReplace(a, b)
    [] f = "replaceOuter" -> replaceOuter(a, b, c, d)
    [] f = "replace" -> replace(a, b, c, d)
    [] f = "NodeSelection" -> NodeSelection(a, b)
    [] f = "findSelectionIn" -> findSelectionIn(a, b, c, d, e)
    [] f = "findSelectionLoop" -> findSelectionLoop(a, b, c, d, e)
    [] f = "findFromUp" -> findFromUp(a, b, c, d)
    [] f = "findFrom" -> findFrom(a, b, c)
    [] f = "near" -> near(a, b, c)
    [] f = "mapRanges" -> mapRanges(a, b, c, d, e)
    [] f = "mapThrough" -> mapThrough(a, b, c, d, e)
    [] f = "mappingMap" -> mappingMap(a, b)
    [] f = "mapSelection" -> mapSelection(a, b, c, d)
    [] f = "contentBetween" -> contentBetween(a, b, c)
    [] f = "insertInto" -> insertInto(a, b, c)
    [] f = "removeMarkIn" -> removeMarkIn(a, b, c, d, e)
    [] f = "addMarkIn" -> addMarkIn(a, b, c, d, e, g)
    [] f = "applyStep" -> applyStep(a, b)
    [] f = "trStep" -> trStep(a, b)
    [] f = "trSelection" -> trSelection(a)
    [] f = "applyTr" -> applyTr(a, b)
    [] f = "fillSearch" -> fillSearch(a, b, c, d, e)
    [] f = "fillEdges" -> fillEdges(a, b, c, d, e, g)
    [] f = "createAndFill" -> createAndFill(a)
    [] f = "fillBefore" -> fillBefore(a, b, c)
    [] f = "fitsTrivially" -> fitsTrivially(a, b)
    [] f = "trDelete" -> trDelete(a, b, c)
    [] f = "trJoin" -> trJoin(a, b)
    [] f = "canAppend" -> canAppend(a, b)
    [] f = "canJoin" -> canJoin(a, b)
    [] f = "blockRangeFrom" -> blockRangeFrom(a, b, c)
    [] f = "blockRange" -> blockRange(a, b, c)
    [] f = "canCut" -> canCut(a, b, c)
    [] f = "liftTargetFrom" -> liftTargetFrom(a, b, c, d, e)
    [] f = "liftTarget" -> liftTarget(a, b)
    [] f = "liftBefore" -> liftBefore(a, b, c, d)
    [] f = "liftAfter" -> liftAfter(a, b, c, d)
    [] f = "trLift" -> trLift(a, b, c)
    [] f = "clearScan" -> clearScan(a, b, c, d, e, g)
    [] f = "trSteps" -> trSteps(a, b)
    [] f = "clearNonMatching" -> clearNonMatching(a, b, c, d)
    [] f = "joinMaybeClear" -> joinMaybeClear(a, b, c)
    [] f = "wrapApplies" -> wrapApplies(a, b)
    [] f = "wrapTr" -> wrapTr(a, b)
    [] f = "liftRange" -> liftRange(a, b)
    [] f = "liftTargetAfter" -> liftTargetAfter(a, b)
    [] f = "liftApplies" -> liftApplies(a, b)
    [] f = "liftTr" -> liftTr(a, b)
    [] f = "deleteBarrier" -> deleteBarrier(a, b, c)
    [] f = "findCutBefore" -> findCutBefore(a)
    [] f = "findCutAfterFrom" -> findCutAfterFrom(a, b)
    [] f = "findCutAfter" -> findCutAfter(a)
    [] f = "notAtStart" -> notAtStart(a, b)
    [] f = "notAtEnd" -> notAtEnd(a, b)
    [] f = "joinBackward" -> joinBackward(a, b, c)
    [] f = "selectNodeBackward" -> selectNodeBackward(a, b, c)
    [] f = "joinForward" -> joinForward(a, b, c)
    [] f = "selectNodeForward" -> selectNodeForward(a, b, c)
    [] f = "coveredFrom" -> coveredFrom(a, b, c)
    [] f = "coveredDepths" -> coveredDepths(a, b)
    [] f = "deleteCovered" -> deleteCovered(a, b, c, d, e)
    [] f = "deleteRange" -> deleteRange(a, b, c)
    [] f = "trDeleteSelection" -> trDeleteSelection(a)
    [] f = "deleteSelection" -> deleteSelection(a, b)
    [] f = "joinPointFrom" -> joinPointFrom(a, b, c, d, e)
    [] f = "joinPoint" -> joinPoint(a, b, c)
    [] f = "selNode" -> selNode(a)
    [] f = "joinUp" -> joinUp(a, b)
    [] f = "joinDown" -> joinDown(a, b)
    [] f = "lift" -> lift(a, b)
    [] f = "validContent" -> validContent(a, b)
    [] f = "canSplit" -> canSplit(a, b, c)
    [] f = "trSplit" -> trSplit(a, b, c)
    [] f = "liftEmptyBlock" -> liftEmptyBlock(a, b)
    [] f = "selectParentNode" -> selectParentNode(a, b)
    [] f = "marksAt" -> marksAt(a)
    [] f = "marksAcross" -> marksAcross(a)
    [] f = "trReplaceWith" -> trReplaceWith(a, b, c, d)
    [] f = "insertText" -> insertText(a, b)
    [] f = "setNodeType" -> setNodeType(a, b, c)
    [] f = "newlineInCode" -> newlineInCode(a, b)
    [] f = "exitCode" -> exitCode(a, b)
    [] f = "createParagraphNear" -> createParagraphNear(a, b)
    [] f = "splitBlock" -> splitBlock(a, b)
    [] f = "ensureMarks" -> ensureMarks(a, b)
    [] f = "splitBlockKeepMarks" -> splitBlockKeepMarks(a, b)
    [] f = "findWrappingOutside" -> findWrappingOutside(a, b, c)
    [] f = "matchChildren" -> matchChildren(a, b, c, d)
    [] f = "findWrappingInside" -> findWrappingInside(a, b, c)
    [] f = "findWrapping" -> findWrapping(a, b, c)
    [] f = "trWrap" -> trWrap(a, b, c)
    [] f = "wrapIn" -> wrapIn(a, b, c)
    [] f = "setBlockType" -> setBlockType(a, b, c)
    [] f = "inlineBetween" -> inlineBetween(a, b, c, d, e)
    [] f = "takesMarkBetween" -> takesMarkBetween(a, b, c, d, e)
    [] f = "markApplies" -> markApplies(a, b, c, d)
    [] f = "rangeHasMark" -> rangeHasMark(a, b, c, d)
    [] f = "addMarkSteps" -> addMarkSteps(a, b, c, d, e)
    [] f = "trAddMark" -> trAddMark(a, b, c, d)
    [] f = "removeMarkSteps" -> removeMarkSteps(a, b, c, d, e, g)
    [] f = "trRemoveMark" -> trRemoveMark(a, b, c, d)
    [] f = "addStoredMark" -> addStoredMark(a, b)
    [] f = "removeStoredMark" -> removeStoredMark(a, b)
    [] f = "toggleMark" -> toggleMark(a, b, c)
    [] f = "changedRanges" -> changedRanges(a, b, c)
    [] f = "joinableIn" -> joinableIn(a, b, c, d, e, g)
    [] f = "joinablePoints" -> joinablePoints(a, b, c, d, e)
    [] f = "joinPoints" -> joinPoints(a, b)
    [] f = "wrapDispatchForJoin" -> wrapDispatchForJoin(a, b)
    [] f = "autoJoin" -> autoJoin(a, b)
    [] f = "run" -> run(a, b, c, d)
    [] f = "chainFrom" -> chainFrom(a, b, c, d, e, g)
    [] f = "chainCommands" -> chainCommands(a, b, c, d)
    [] f = "call" -> call(a, b, c, d)
    [] f = "StartSelections" -> StartSelections(a)

VARIABLES
  state,     \* the editor state: doc, selection, storedMarks
  prev,      \* the state the last command was called on
  cmd,       \* the command or key being called, << >> between calls
  dispatch,  \* whether it was given a dispatch function
  view,      \* the view it was given
  res,       \* what it returned, dispatched and called
  n          \* the number of calls made

vars == << state, prev, cmd, dispatch, view, res, n >>

Init ==
  /\ \E doc \in StartDocs : \E sel \in StartSelections_(doc) :
       state = [doc |-> doc, selection |-> sel, storedMarks |-> NoMarks]
  /\ prev = state
  /\ cmd = << >>
  /\ dispatch = FALSE
  /\ view = NoView
  /\ res = Result(FALSE, << >>)
  /\ n = 0

\* view.dispatch: the state after the transactions handed to dispatch.  A
\* transaction made from a state that is no longer current is rejected.
dispatched(st, trs) ==
  IF trs = << >> THEN st
  ELSE IF Len(trs) = 1 THEN applyTr_(st, trs[1])
  ELSE [doc |-> ErrorNode, selection |-> NoSelection, storedMarks |-> NoMarks]

\* The editor is ready for a call: the last one has returned.
Ready ==
  /\ cmd = << >>
  /\ n < MaxCalls
  /\ state.doc # ErrorNode

\* The call of command or key c with dispatch d and view v on the current
\* state: what it returns, and the state after what it dispatched.
Calls(c, d, v) ==
  /\ prev' = state
  /\ cmd' = c
  /\ dispatch' = d
  /\ view' = v
  /\ res' = call_(c, state, d, v)
  /\ state' = dispatched(state, res'.trs)
  /\ n' = n + 1

\* The commands that take (state, dispatch), and those that take
\* (state, dispatch, view).
DeleteSelection ==
  \E d \in BOOLEAN :
    /\ Ready
    /\ Calls(<< "deleteSelection" >>, d, NoView)

JoinBackward ==
  \E d \in BOOLEAN, v \in Views :
    /\ Ready
    /\ Calls(<< "joinBackward" >>, d, v)

SelectNodeBackward ==
  \E d \in BOOLEAN, v \in Views :
    /\ Ready
    /\ Calls(<< "selectNodeBackward" >>, d, v)

JoinForward ==
  \E d \in BOOLEAN, v \in Views :
    /\ Ready
    /\ Calls(<< "joinForward" >>, d, v)

SelectNodeForward ==
  \E d \in BOOLEAN, v \in Views :
    /\ Ready
    /\ Calls(<< "selectNodeForward" >>, d, v)

JoinUp ==
  \E d \in BOOLEAN :
    /\ Ready
    /\ Calls(<< "joinUp" >>, d, NoView)

JoinDown ==
  \E d \in BOOLEAN :
    /\ Ready
    /\ Calls(<< "joinDown" >>, d, NoView)

Lift ==
  \E d \in BOOLEAN :
    /\ Ready
    /\ Calls(<< "lift" >>, d, NoView)

NewlineInCode ==
  \E d \in BOOLEAN :
    /\ Ready
    /\ Calls(<< "newlineInCode" >>, d, NoView)

ExitCode ==
  \E d \in BOOLEAN :
    /\ Ready
    /\ Calls(<< "exitCode" >>, d, NoView)

CreateParagraphNear ==
  \E d \in BOOLEAN :
    /\ Ready
    /\ Calls(<< "createParagraphNear" >>, d, NoView)

LiftEmptyBlock ==
  \E d \in BOOLEAN :
    /\ Ready
    /\ Calls(<< "liftEmptyBlock" >>, d, NoView)

SplitBlock ==
  \E d \in BOOLEAN :
    /\ Ready
    /\ Calls(<< "splitBlock" >>, d, NoView)

SplitBlockKeepMarks ==
  \E d \in BOOLEAN :
    /\ Ready
    /\ Calls(<< "splitBlockKeepMarks" >>, d, NoView)

SelectParentNode ==
  \E d \in BOOLEAN :
    /\ Ready
    /\ Calls(<< "selectParentNode" >>, d, NoView)

SelectAll ==
  \E d \in BOOLEAN :
    /\ Ready
    /\ Calls(<< "selectAll" >>, d, NoView)

WrapIn ==
  \E d \in BOOLEAN, t \in {"blockquote", "bullet_list"} :
    /\ Ready
    /\ Calls(<< "wrapIn", t >>, d, NoView)

SetBlockType ==
  \E d \in BOOLEAN, t \in {"paragraph", "heading", "code_block"} :
    /\ Ready
    /\ Calls(<< "setBlockType", t >>, d, NoView)

ToggleMark ==
  \E d \in BOOLEAN, m \in {"em", "strong"} :
    /\ Ready
    /\ Calls(<< "toggleMark", m >>, d, NoView)

AutoJoin ==
  \E d \in BOOLEAN, c \in { << "deleteSelection" >>, << "lift" >>, << "joinBackward" >>,
                            << "wrapIn", "bullet_list" >> } :
    /\ Ready
    /\ Calls(<< "autoJoin" >> \o c, d, NoView)

\* The keys that baseKeymap binds to a chain.
Enter ==
  \E d \in BOOLEAN, v \in Views :
    /\ Ready
    /\ Calls(<< "chainCommands", "Enter" >>, d, v)

Backspace ==
  \E d \in BOOLEAN, v \in Views :
    /\ Ready
    /\ Calls(<< "chainCommands", "Backspace" >>, d, v)

Delete ==
  \E d \in BOOLEAN, v \in Views :
    /\ Ready
    /\ Calls(<< "chainCommands", "Delete" >>, d, v)

\* The call has returned: the editor waits for the next one.
Idle ==
  /\ cmd # << >>
  /\ prev' = state
  /\ cmd' = << >>
  /\ dispatch' = FALSE
  /\ view' = NoView
  /\ res' = Result(FALSE, << >>)
  /\ UNCHANGED << state, n >>

Next ==
  \/ DeleteSelection
  \/ JoinBackward
  \/ SelectNodeBackward
  \/ JoinForward
  \/ SelectNodeForward
  \/ JoinUp
  \/ JoinDown
  \/ Lift
  \/ NewlineInCode
  \/ ExitCode
  \/ CreateParagraphNear
  \/ LiftEmptyBlock
  \/ SplitBlock
  \/ SplitBlockKeepMarks
  \/ SelectParentNode
  \/ SelectAll
  \/ WrapIn
  \/ SetBlockType
  \/ ToggleMark
  \/ AutoJoin
  \/ Enter
  \/ Backspace
  \/ Delete
  \/ Idle

Spec == Init /\ [][Next]_vars

\* ------------------------------------------------------------------------
\* The editor of the word-wise deletion
\* ------------------------------------------------------------------------

\* Longest text before the cursor.
WordLen == 3

\* The inline content of a textblock: characters and images.
RECURSIVE WordContents(_)
WordContents(len) ==
  IF len = 0 THEN { << >> }
  ELSE LET shorter == WordContents(len - 1)
       IN  shorter \cup { Append(c, x) : c \in { w \in shorter : Len(w) = len - 1 },
                                         x \in { MkText(ch, {}) : ch \in WordChars } \cup { Img } }

\* Where the content of the second paragraph starts.
WordStart == nodeSize(P(Txt(<< "a" >>))) + 1

\* The units moveBackward is asked for.
MotionUnits == { "char", "word", "line" }

\* A paragraph with a letter, then a paragraph with the content; the cursor
\* anywhere in the second, or the content selected.
WordInit ==
  /\ \E c \in WordContents(WordLen) :
       \E a \in WordStart..(WordStart + Len(c)) : \E h \in { a, WordStart + Len(c) } :
         state = [doc |-> Doc(<< P(Txt(<< "a" >>)), P(c) >>),
                  selection |-> TextSelection(a, h), storedMarks |-> NoMarks]
  /\ prev = state
  /\ cmd = << >>
  /\ dispatch = FALSE
  /\ view = NoView
  /\ res = Result(FALSE, << >>)
  /\ n = 0

DeleteWordBefore ==
  \E apply \in BOOLEAN :
    /\ Ready
    /\ prev' = state
    /\ cmd' = << "deleteWordBefore" >>
    /\ dispatch' = apply
    /\ view' = NoView
    /\ res' = deleteWordBefore(state, apply)
    /\ state' = dispatched(state, res'.trs)
    /\ n' = n + 1

MoveBackward ==
  \E by \in MotionUnits :
    /\ Ready
    /\ prev' = state
    /\ cmd' = << "moveBackward", by >>
    /\ dispatch' = FALSE
    /\ view' = NoView
    /\ res' = [ret |-> moveBackward(resolve_(state.doc, state.selection.head), by),
               trs |-> << >>, calls |-> << >>]
    /\ state' = state
    /\ n' = n + 1

WordNext ==
  \/ DeleteWordBefore
  \/ MoveBackward

WordSpec == WordInit /\ [][WordNext]_vars

\* ------------------------------------------------------------------------
\* Properties
\* ------------------------------------------------------------------------

\* A call is in progress: cmd was called on prev and returned res.
InCall == cmd # << >>

\* C1: a command returns the same boolean without a dispatch callback as
\* with one, and a call without dispatch leaves document, selection and
\* stored marks as they were.
DryRunEquivalence ==
  InCall =>
    /\ call(cmd, prev, ~dispatch, view).ret = res.ret
    /\ ~dispatch => (res.trs = << >> /\ state = prev)

\* A command that applies was called without dispatch.
DryRunApplies == InCall /\ ~dispatch /\ res.ret /\ state = prev

\* C2: called with a dispatch callback, a command dispatches one
\* transaction when it returns true and none when it returns false; so does
\* every command called inside it by chainCommands or autoJoin.
ExactlyOnceDispatch ==
  (InCall /\ dispatch) =>
    /\ Len(res.trs) = (IF res.ret THEN 1 ELSE 0)
    /\ \A i \in DOMAIN res.calls :
         res.calls[i].sent = (IF res.calls[i].ret THEN 1 ELSE 0)

\* A key's chain dispatched the transaction of its second command.
ChainDispatchedOnce ==
  /\ InCall /\ dispatch /\ cmd[1] = "chainCommands"
  /\ res.ret /\ Len(res.trs) = 1 /\ state # prev
  /\ \E i \in DOMAIN res.calls : res.calls[i].fn = baseKeymap[cmd[2]][2] /\ res.calls[i].ret

\* The calls of exported commands in the trace of the call in progress,
\* without those of joinMaybeClear and deleteBarrier.
IsCommandCall(e) == e.fn \notin { << "joinMaybeClear" >>, << "deleteBarrier" >> }
commandCalls == SelectSeq(res.calls, IsCommandCall)

\* C3: a chain invokes its commands in order on the arguments it was
\* given, every one before the last invoked returned false, the chain
\* returns what the last invoked returned, and it returns false only when
\* all were invoked; with or without dispatch.
ChainShortCircuit ==
  (InCall /\ cmd[1] = "chainCommands") =>
    LET chain == baseKeymap[cmd[2]]
        k     == Len(commandCalls)
    IN  /\ k \in 1..Len(chain)
        /\ \A i \in 1..k :
             /\ commandCalls[i].fn = chain[i]
             /\ commandCalls[i].dispatch = dispatch
             /\ commandCalls[i].view = view
             /\ commandCalls[i].ret = run(chain[i], prev, dispatch, view).ret
        /\ \A i \in 1..(k - 1) : ~commandCalls[i].ret
        /\ res.ret = commandCalls[k].ret
        /\ ~res.ret => k = Len(chain)

\* A chain stopped at its second command of three.
ChainStoppedEarly ==
  /\ InCall /\ cmd[1] = "chainCommands"
  /\ Len(commandCalls) = 2 /\ Len(baseKeymap[cmd[2]]) = 3 /\ res.ret

prevCursor == resolve(prev.doc, prev.selection.head)
blockDepth == prevCursor.depth - 1
blockIndex == indexAt(prevCursor, blockDepth)

\* The command was called with an empty selection whose cursor it takes to
\* be at the start of its textblock, and the cursor is at offset 0 there.
AtStartOfTextblock ==
  /\ hasCursor(prev.selection)
  /\ parentOffset(prevCursor) = 0
  /\ view.present => view.endOfTextblock

\* The textblock before the cursor's, when that is its preceding sibling.
siblingBefore == child(nodeAt(prevCursor, blockDepth), blockIndex - 1)

\* joinBackward was called with the cursor at the start of a textblock whose
\* preceding sibling is a non-empty textblock, not an isolating one, with
\* compatible content.
DirectJoinCase ==
  /\ InCall /\ cmd = << "joinBackward" >>
  /\ AtStartOfTextblock
  /\ blockIndex > 0
  /\ isTextblock(siblingBefore.type)
  /\ ~isolating(siblingBefore.type)
  /\ siblingBefore.content # << >>
  /\ compatibleContent(siblingBefore.type, parentOf(prevCursor).type)

\* The node of rp at depth d, with its descendant at the given depth on the
\* path of rp replaced by new.
RECURSIVE ReplacedAt(_, _, _, _)
ReplacedAt(rp, d, depth, new) ==
  IF d = depth THEN new
  ELSE copy(nodeAt(rp, d),
            replaceChild(nodeAt(rp, d).content, indexAt(rp, d), ReplacedAt(rp, d + 1, depth, new)))

\* The document the command was called on, with the cursor's textblock and
\* its preceding sibling replaced by one node, the sibling with the given
\* content.
JoinedDoc(content) ==
  LET par == nodeAt(prevCursor, blockDepth)
  IN  ReplacedAt(prevCursor, 0, blockDepth,
        copy(par, SubSeq(par.content, 1, blockIndex - 1)
                  \o << copy(siblingBefore, content) >>
                  \o SubSeq(par.content, blockIndex + 2, Len(par.content))))

\* The inline nodes of f that a textblock of type t holds, without the marks
\* it does not allow.
RECURSIVE Cleared(_, _)
Cleared(t, f) ==
  IF f = << >> THEN << >>
  ELSE (IF ContentExpr(t) = "inline*" \/ Head(f).type = "text"
        THEN << [Head(f) EXCEPT !.marks = { mk \in @ : t # "code_block" }] >>
        ELSE << >>) \o Cleared(t, Tail(f))

\* C5 as stated: in the direct-join case joinBackward returns true and the
\* two textblocks become one, holding the content of the preceding block
\* followed by the content of the cursor's block.
DirectJoinConcatenates ==
  DirectJoinCase =>
    /\ res.ret
    /\ dispatch => state.doc = JoinedDoc(siblingBefore.content \o parentOf(prevCursor).content)

\* C5, amended: in the direct-join case joinBackward returns true and the
\* two textblocks become one, holding the content of the preceding block
\* followed by that part of the content of the cursor's block which the
\* type of the preceding block allows: the nodes it does not admit are
\* dropped, and so are the marks it does not allow.
DirectJoinClears ==
  DirectJoinCase =>
    /\ res.ret
    /\ dispatch => state.doc = JoinedDoc(siblingBefore.content
                                 \o Cleared(siblingBefore.type, parentOf(prevCursor).content))

\* A direct join dropped content of the cursor's block.
DirectJoinDropped ==
  /\ DirectJoinCase /\ dispatch /\ res.ret
  /\ Cleared(siblingBefore.type, parentOf(prevCursor).content) # parentOf(prevCursor).content
  /\ state.doc # prev.doc

\* The node before the cursor's textblock cannot hold it, but can hold it
\* wrapped in these types, the outermost first.
connBefore ==
  matchFindWrapping(contentMatchAt(siblingBefore, childCount(siblingBefore)),
                    parentOf(prevCursor).type)

\* joinBackward was called with the cursor at the start of a textblock, and
\* the node before the textblock admits it at its end through a chain of
\* wrapper types.
WrapJoinCase ==
  /\ InCall /\ cmd = << "joinBackward" >>
  /\ AtStartOfTextblock
  /\ blockIndex > 0
  /\ connBefore.found /\ connBefore.conn # << >>

\* node inside nodes of the types of conn.
RECURSIVE Wrapped(_, _)
Wrapped(conn, node) ==
  IF conn = << >> THEN node ELSE create(Head(conn), << Wrapped(Tail(conn), node) >>)

\* The document the command was called on, with the cursor's textblock and
\* the node before it, and the node after it if absorbed is TRUE, replaced
\* by the node before it with more appended to its content.
WrapJoinedDoc(more, absorbed) ==
  LET par == nodeAt(prevCursor, blockDepth)
  IN  ReplacedAt(prevCursor, 0, blockDepth,
        copy(par, SubSeq(par.content, 1, blockIndex - 1)
                  \o << copy(siblingBefore, siblingBefore.content \o more) >>
                  \o SubSeq(par.content, blockIndex + (IF absorbed THEN 3 ELSE 2),
                            Len(par.content))))

\* C6: in the wrap-and-join case joinBackward returns true, and the
\* textblock leaves its place for the end of the content the node before it
\* had, wrapped in the chain; the rest of the document is as it was, but
\* for a node after the textblock that is joined to the node before it.
WrapAndJoin ==
  WrapJoinCase =>
    /\ res.ret
    /\ dispatch =>
         LET par  == nodeAt(prevCursor, blockDepth)
             item == << Wrapped(connBefore.conn, parentOf(prevCursor)) >>
         IN  \/ state.doc = WrapJoinedDoc(item, FALSE)
             \/ /\ blockIndex + 1 < childCount(par)
                /\ state.doc = WrapJoinedDoc(item \o child(par, blockIndex + 1).content, TRUE)

\* A paragraph after a list became the last item of the list.
WrappedIntoList ==
  /\ WrapJoinCase /\ dispatch /\ res.ret
  /\ siblingBefore.type = "bullet_list"
  /\ state.doc = WrapJoinedDoc(<< Wrapped(<< "list_item" >>, parentOf(prevCursor)) >>, FALSE)

\* joinBackward was called with the cursor at the start of its textblock,
\* and at no depth does an ancestor, or the textblock, have a sibling before.
NoNodeBeforeCase ==
  /\ InCall /\ cmd = << "joinBackward" >>
  /\ AtStartOfTextblock
  /\ \A d \in 0..blockDepth : indexAt(prevCursor, d) = 0

\* The depth the cursor's textblock can be lifted to, -1 if none.
cursorLiftTarget ==
  LET range == blockRange(prev.doc, prevCursor.pos, prevCursor.pos)
  IN  IF range = NoRange THEN -1 ELSE liftTarget(prev.doc, range)

\* The inline nodes of a node, in the order of the document.
RECURSIVE inlineOf(_)
RECURSIVE inlineOfAll(_)
inlineOf(node) ==
  IF isLeaf(node.type) THEN (IF isBlock(node.type) THEN << >> ELSE << node >>)
  ELSE inlineOfAll(node.content)
inlineOfAll(f) == IF f = << >> THEN << >> ELSE inlineOf(Head(f)) \o inlineOfAll(Tail(f))

\* C7: with no node before at any depth, joinBackward returns true if the
\* textblock has a lift target, and then its transaction puts the textblock,
\* as it was, one level below the target depth and keeps the inline content
\* of the document; it returns false, dispatching nothing, if there is no
\* lift target.
LiftWhenNothingBefore ==
  NoNodeBeforeCase =>
    /\ res.ret = (cursorLiftTarget # -1)
    /\ ~res.ret => (res.trs = << >> /\ state = prev)
    /\ (res.ret /\ dispatch) =>
         LET cursor == resolve(state.doc, state.selection.head)
         IN  /\ hasCursor(state.selection)
             /\ parentOf(cursor) = parentOf(prevCursor)
             /\ cursor.depth = cursorLiftTarget + 1
             /\ cursor.depth < prevCursor.depth
             /\ inlineOf(state.doc) = inlineOf(prev.doc)

\* The first paragraph of the only item of a list was lifted out of it.
LiftedAtStart ==
  /\ NoNodeBeforeCase /\ dispatch /\ res.ret
  /\ nodeAt(prevCursor, 1).type = "bullet_list"
  /\ resolve(state.doc, state.selection.head).depth = 1

\* joinBackward or joinForward was called and went on to deleteBarrier.
BarrierCalled ==
  /\ InCall /\ cmd \in { << "joinBackward" >>, << "joinForward" >> }
  /\ Len(res.calls) >= 2
  /\ res.calls[2].fn = << "deleteBarrier" >>

\* The cut deleteBarrier was given, and what it returned and dispatched.
barrierCut ==
  IF cmd = << "joinBackward" >> THEN findCutBefore(prevCursor) ELSE findCutAfter(prevCursor)
barrier == res.calls[2]

\* Whether the direct join applies at the cut.
joinApplies == joinMaybeClear(prev, barrierCut, FALSE).ret

\* C8: deleteBarrier tries the direct join first; it returns true iff one
\* of join, wrap and lift applies, and the transaction it dispatches is
\* that of the first of the three, in this order, that applies, and of no
\* other.
StrategyOrder ==
  BarrierCalled =>
    LET W == wrapApplies(prev, barrierCut)
        L == liftApplies(prev, barrierCut)
    IN  /\ Len(res.calls) >= 3 /\ res.calls[3].fn = << "joinMaybeClear" >>
        /\ barrier.ret = (joinApplies \/ W \/ L)
        /\ dispatch =>
             /\ joinApplies => res.trs = joinMaybeClear(prev, barrierCut, TRUE).trs
             /\ (~joinApplies /\ W) => res.trs = << wrapTr(prev, barrierCut) >>
             /\ (~joinApplies /\ ~W /\ L) => res.trs = << liftTr(prev, barrierCut) >>

\* Both wrap and lift applied at the cut, and the node after the cut was
\* moved into the node before it.
WrapBeforeLift ==
  /\ BarrierCalled /\ dispatch /\ ~joinApplies
  /\ wrapApplies(prev, barrierCut) /\ liftApplies(prev, barrierCut)
  /\ res.trs = << wrapTr(prev, barrierCut) >>
  /\ res.trs # << liftTr(prev, barrierCut) >>

\* The depth the block range around the first selection after the cut can
\* be lifted to, -1 if there is no such selection, range or depth.
targetAfterCut ==
  LET selAfter == findFrom(prev.doc, resolve(prev.doc, barrierCut), 1)
      range    == IF selAfter = NoSelection THEN NoRange
                  ELSE blockRange(prev.doc, selFrom(selAfter), selTo(selAfter))
  IN  IF range = NoRange THEN -1 ELSE liftTarget(prev.doc, range)

\* The lift deleteBarrier may fall back to.
liftAllowed == targetAfterCut # -1 /\ targetAfterCut >= resolve(prev.doc, barrierCut).depth

Backward == { << "joinBackward" >>, << "selectNodeBackward" >> }
Forward  == { << "joinForward" >>, << "selectNodeForward" >> }

\* The offsets the backward and the forward commands look for.
offsetAtStart == parentOffset(prevCursor) = 0
offsetAtEnd   == parentOffset(prevCursor) = fragSize(parentOf(prevCursor).content)

\* C10: without a view the backward commands return false unless the
\* selection is a cursor at offset 0, and the forward commands unless it is
\* a cursor at the end of its textblock; with a view they return false
\* unless the selection is a cursor and view.endOfTextblock answers true,
\* and where the view answers true at a cursor that passes the offset test
\* they do what they do without a view.
CursorPrecondition ==
  (InCall /\ cmd \in Backward \cup Forward) =>
    /\ ~hasCursor(prev.selection) => ~res.ret
    /\ (~view.present /\ cmd \in Backward /\ ~offsetAtStart) => ~res.ret
    /\ (~view.present /\ cmd \in Forward /\ ~offsetAtEnd) => ~res.ret
    /\ (view.present /\ ~view.endOfTextblock) => ~res.ret
    /\ ( /\ view.present /\ view.endOfTextblock /\ hasCursor(prev.selection)
         /\ IF cmd \in Backward THEN offsetAtStart ELSE offsetAtEnd )
       => LET plain == call(cmd, prev, dispatch, NoView)
          IN  res.ret = plain.ret /\ res.trs = plain.trs

\* The view took a cursor inside the text for one at the start of its
\* textblock, and the backward command went on and applied.
ViewOverridesOffset ==
  /\ InCall /\ cmd \in Backward
  /\ hasCursor(prev.selection) /\ ~offsetAtStart
  /\ view.present /\ view.endOfTextblock
  /\ res.ret

\* The isolating nodes of a node, in the order of the document.
RECURSIVE isolatingOf(_)
RECURSIVE isolatingOfAll(_)
isolatingOf(node) ==
  IF isolating(node.type) THEN << node >> ELSE isolatingOfAll(node.content)
isolatingOfAll(f) ==
  IF f = << >> THEN << >> ELSE isolatingOf(Head(f)) \o isolatingOfAll(Tail(f))

\* A node without the content of the isolating nodes in it.
RECURSIVE hull(_)
hull(node) ==
  IF isolating(node.type) THEN copy(node, << >>)
  ELSE copy(node, [i \in 1..Len(node.content) |-> hull(node.content[i])])

\* The cursor the command was called with lies in an isolating node.
cursorIsolated ==
  \E d \in 0..prevCursor.depth : isolating(nodeAt(prevCursor, d).type)

\* The command c left every boundary of an isolating node alone: called
\* with the cursor inside an isolating node it changed nothing outside it,
\* and called with the cursor outside it left the isolating nodes of the
\* document as they were, each with the content it had.
BoundariesKept(c) ==
  (InCall /\ cmd = c /\ hasCursor(prev.selection)) =>
    IF cursorIsolated THEN hull(state.doc) = hull(prev.doc)
    ELSE isolatingOf(state.doc) = isolatingOf(prev.doc)

\* joinBackward keeps the boundaries of isolating nodes.
IsolatingBackward == BoundariesKept(<< "joinBackward" >>)

\* C11: joinBackward and joinForward never join, wrap, lift or delete
\* content across the boundary of an isolating node, neither out of an
\* isolating ancestor of the cursor nor into an isolating node next to the
\* cut.
IsolatingBoundaries ==
  /\ BoundariesKept(<< "joinBackward" >>)
  /\ BoundariesKept(<< "joinForward" >>)

\* The cut joinBackward finds before the cursor's textblock, -1 if none.
cutBefore == findCutBefore(prevCursor)

\* No structural merge applies for joinBackward: with no node before, the
\* textblock has no lift target; with a node before, it is isolating or
\* neither join, wrap nor lift applies at the cut.
NoMergeBackward ==
  IF cutBefore = -1 THEN cursorLiftTarget = -1
  ELSE \/ isolating(nodeBefore(resolve(prev.doc, cutBefore)).type)
       \/ ~deleteBarrier(prev, cutBefore, FALSE).ret

\* joinBackward was called with the cursor in an empty textblock that the
\* content expression of its parent does not allow to be removed, and no
\* structural merge applies.
EmptyUndeletableCase ==
  /\ InCall /\ cmd = << "joinBackward" >>
  /\ AtStartOfTextblock
  /\ parentOf(prevCursor).content = << >>
  /\ ~canReplace(nodeAt(prevCursor, blockDepth), blockIndex, blockIndex + 1, << >>)
  /\ NoMergeBackward

\* C12: on an empty textblock that cannot be deleted, where no structural
\* merge applies, joinBackward returns false, dispatches nothing and leaves
\* the document unchanged.
EmptyBlockKept ==
  EmptyUndeletableCase => (~res.ret /\ res.trs = << >> /\ state.doc = prev.doc)

\* No ancestor of the cursor has a child after the one the cursor is in.
NothingAfter ==
  \A d \in 0..(prevCursor.depth - 1) :
    indexAt(prevCursor, d) + 1 >= childCount(nodeAt(prevCursor, d))

\* joinForward was called with a cursor that nothing follows at any level.
EndOfDocumentCase ==
  /\ InCall /\ cmd = << "joinForward" >>
  /\ hasCursor(prev.selection)
  /\ NothingAfter

\* C13: with a cursor that has no following sibling at any ancestor level,
\* joinForward returns false, dispatches nothing and leaves document and
\* selection as they were; it never lifts its own block.
JoinForwardAtEnd ==
  EndOfDocumentCase => (~res.ret /\ res.trs = << >> /\ state = prev)

\* joinForward ran with dispatch at the end of the last textblock, which is
\* nested in a node it could be lifted out of.
AtEndOfNestedBlock ==
  /\ EndOfDocumentCase /\ dispatch
  /\ (IF view.present THEN view.endOfTextblock ELSE offsetAtEnd)
  /\ cursorLiftTarget # -1

\* The block leaves of a node, in document order.
RECURSIVE leavesOf(_)
RECURSIVE leavesOfAll(_)
leavesOf(node) ==
  IF isLeaf(node.type) THEN (IF isBlock(node.type) THEN << node >> ELSE << >>)
  ELSE leavesOfAll(node.content)
leavesOfAll(f) == IF f = << >> THEN << >> ELSE leavesOf(Head(f)) \o leavesOfAll(Tail(f))

\* The cut a join command looks at, and the node on its far side.
joinCut == IF cmd = << "joinBackward" >> THEN findCutBefore(prevCursor) ELSE findCutAfter(prevCursor)
neighbour ==
  IF cmd = << "joinBackward" >> THEN nodeBefore(resolve(prev.doc, joinCut))
  ELSE nodeAfter(resolve(prev.doc, joinCut))

\* joinBackward or joinForward was called with the cursor at the end of its
\* textblock that faces a cut whose far side is a leaf.
LeafNeighbourCase ==
  /\ InCall /\ cmd \in { << "joinBackward" >>, << "joinForward" >> }
  /\ hasCursor(prev.selection)
  /\ IF view.present THEN view.endOfTextblock
     ELSE IF cmd = << "joinBackward" >> THEN offsetAtStart ELSE offsetAtEnd
  /\ joinCut # -1
  /\ isAtom(neighbour.type)

\* The structural merge at the cut applies.
mergeApplies == deleteBarrier(prev, joinCut, FALSE).ret
\* The cut lies at the depth directly enclosing the cursor's textblock.
cutEnclosesBlock == resolve(prev.doc, joinCut).depth = prevCursor.depth - 1
\* The fallback that removes the empty cursor block and selects the leaf.
emptyBlockFallback == parentOf(prevCursor).content = << >> /\ isSelectable(neighbour)
\* The call removed one block leaf from the document.
leafDeleted == Len(leavesOf(state.doc)) = Len(leavesOf(prev.doc)) - 1

\* C14: facing a leaf, joinBackward and joinForward try the structural merge
\* first: where it applies they return true, what is dispatched is the
\* merge, and the leaf stays. The leaf is deleted only when the merge fails
\* and the cut is at the depth directly enclosing the cursor's textblock;
\* in that case, unless the cursor's block is empty, the command returns
\* true and with dispatch the leaf is gone and the inline content is kept,
\* and with the cut at another depth it returns false and changes nothing.
MergeBeforeDelete ==
  LeafNeighbourCase =>
    /\ BarrierCalled /\ barrierCut = joinCut
    /\ mergeApplies =>
         /\ res.ret
         /\ state = dispatched(prev, deleteBarrier(prev, joinCut, dispatch).trs)
         /\ leavesOf(state.doc) = leavesOf(prev.doc)
    /\ leafDeleted => (~mergeApplies /\ cutEnclosesBlock /\ dispatch)
    /\ (~mergeApplies /\ cutEnclosesBlock /\ ~emptyBlockFallback) =>
         /\ res.ret
         /\ dispatch => (leafDeleted /\ inlineOf(state.doc) = inlineOf(prev.doc))
    /\ (~mergeApplies /\ ~cutEnclosesBlock /\ ~emptyBlockFallback) =>
         (~res.ret /\ state = prev)

\* Facing a leaf, a merge was dispatched that changed the document and kept
\* the leaf.
MergedNotDeleted ==
  /\ LeafNeighbourCase /\ dispatch
  /\ mergeApplies
  /\ state.doc # prev.doc

\* The resolved cut of a join command and the nodes on its two sides.
cutPos     == resolve(prev.doc, joinCut)
cutBeforeN == nodeBefore(cutPos)
cutAfterN  == nodeAfter(cutPos)
cutIndex   == indexAt(cutPos, cutPos.depth)

\* joinBackward or joinForward reached a cut whose node before is empty, of
\* a type with content compatible with the node after, and removable from
\* the parent.
EmptyBeforeCase ==
  /\ InCall /\ cmd \in { << "joinBackward" >>, << "joinForward" >> }
  /\ hasCursor(prev.selection)
  /\ IF view.present THEN view.endOfTextblock
     ELSE IF cmd = << "joinBackward" >> THEN offsetAtStart ELSE offsetAtEnd
  /\ joinCut # -1
  /\ cutBeforeN # NoNode /\ cutAfterN # NoNode
  /\ ~isolating(cutBeforeN.type)
  /\ cutBeforeN.content = << >>
  /\ compatibleContent(cutBeforeN.type, cutAfterN.type)
  /\ canReplace(parentOf(cutPos), cutIndex - 1, cutIndex, << >>)

\* The document without the node before the cut, everything else as it was.
WithoutBefore ==
  LET par == parentOf(cutPos)
  IN  ReplacedAt(cutPos, 0, cutPos.depth,
        copy(par, SubSeq(par.content, 1, cutIndex - 1)
                  \o SubSeq(par.content, cutIndex + 1, Len(par.content))))

\* C15: when the node before the cut is empty, its type has content
\* compatible with the node after and the parent permits removing it, the
\* join commands return true and with dispatch the document is the old one
\* without the empty node: the node after keeps its type, attributes and
\* content.
EmptyBeforeDeleted ==
  EmptyBeforeCase =>
    /\ res.ret
    /\ dispatch => state.doc = WithoutBefore
    /\ ~dispatch => state = prev

\* An empty paragraph before a heading was removed and the heading stayed.
HeadingKept ==
  /\ EmptyBeforeCase /\ dispatch
  /\ cutBeforeN.type = "paragraph" /\ cutAfterN.type = "heading"
  /\ cutAfterN.content # << >>

\* joinBackward moves the cursor's textblock into the node before it (the
\* wrap branch of deleteBarrier) and another node follows the textblock.
WrapWithFollowingCase ==
  /\ InCall /\ cmd = << "joinBackward" >>
  /\ AtStartOfTextblock
  /\ blockIndex > 0
  /\ ~isolating(siblingBefore.type)
  /\ ~joinApplies /\ wrapApplies(prev, barrierCut)
  /\ blockIndex + 1 < childCount(nodeAt(prevCursor, blockDepth))
  /\ dispatch

\* The node that follows the cursor's textblock.
siblingAfter == child(nodeAt(prevCursor, blockDepth), blockIndex + 1)

\* The node before can take the content of the node after the textblock.
followingFits ==
  /\ ~isLeaf(siblingAfter.type)
  /\ canAppend(siblingBefore, siblingAfter)

\* C16: after the cursor's block was moved into the node before it, that
\* node is joined with the node that follows the moved block when the two
\* are of the same type and joinable, and is not joined with a following
\* node of a different type.
JoinsFollowingSibling ==
  WrapWithFollowingCase =>
    LET item == << Wrapped(connBefore.conn, parentOf(prevCursor)) >>
    IN  IF siblingAfter.type = siblingBefore.type /\ followingFits
        THEN state.doc = WrapJoinedDoc(item \o siblingAfter.content, TRUE)
        ELSE state.doc = WrapJoinedDoc(item, FALSE)

\* The part of C16 about a following node of the same type.
JoinsSameTypeSibling ==
  (WrapWithFollowingCase /\ siblingAfter.type = siblingBefore.type /\ followingFits) =>
    state.doc = WrapJoinedDoc(<< Wrapped(connBefore.conn, parentOf(prevCursor)) >>
                              \o siblingAfter.content, TRUE)

\* joinUp or joinDown was called on a node selection.
NodeJoinCase ==
  /\ InCall /\ cmd \in { << "joinUp" >>, << "joinDown" >> }
  /\ prev.selection.kind = "node"

\* The selected node, the boundary the command looks at and the two nodes
\* at that boundary.
selected     == nodeAfter(resolve(prev.doc, prev.selection.anchor))
boundary     ==
  IF cmd = << "joinUp" >> THEN prev.selection.anchor
  ELSE prev.selection.anchor + nodeSize(selected)
boundaryPos  == resolve(prev.doc, boundary)
upperNode    == nodeBefore(boundaryPos)
lowerNode    == nodeAfter(boundaryPos)
boundaryJoinable ==
  /\ upperNode # NoNode /\ lowerNode # NoNode
  /\ ~isLeaf(upperNode.type)
  /\ canAppend(upperNode, lowerNode)
  /\ canReplace(parentOf(boundaryPos), indexAt(boundaryPos, boundaryPos.depth),
                indexAt(boundaryPos, boundaryPos.depth) + 1, << >>)

\* The two nodes at the boundary as one, and the document with them merged.
mergedNode == copy(upperNode, upperNode.content \o lowerNode.content)
MergedAtBoundary ==
  LET par == parentOf(boundaryPos)
      i   == indexAt(boundaryPos, boundaryPos.depth)
  IN  ReplacedAt(boundaryPos, 0, boundaryPos.depth,
        copy(par, SubSeq(par.content, 1, i - 1) \o << mergedNode >>
                  \o SubSeq(par.content, i + 2, Len(par.content))))

\* C17: on a node selection joinUp and joinDown return true exactly when
\* the selected node is not a textblock and the boundary directly before
\* (joinUp) or after (joinDown) it is joinable; otherwise they change
\* nothing, whatever boundaries the ancestors have. With dispatch the two
\* nodes at that boundary are merged, the rest of the document is kept, and
\* the selection is a node selection of the merged node.
NodeSelectionJoin ==
  NodeJoinCase =>
    /\ res.ret = (~isTextblock(selected.type) /\ boundaryJoinable)
    /\ ~res.ret => (res.trs = << >> /\ state = prev)
    /\ (res.ret /\ ~dispatch) => state = prev
    /\ (res.ret /\ dispatch) =>
         /\ state.doc = MergedAtBoundary
         /\ state.selection.kind = "node"
         /\ state.selection.anchor = boundary - nodeSize(upperNode)
         /\ nodeAfter(resolve(state.doc, state.selection.anchor)) = mergedNode

\* A join at the boundary of a selected node was dispatched.
SelectedNodeJoined ==
  /\ NodeJoinCase /\ res.ret /\ dispatch
  /\ state.doc # prev.doc

\* joinUp refused a selected node with nothing before it although the
\* boundary before its parent is joinable.
AncestorNotJoined ==
  /\ NodeJoinCase /\ cmd = << "joinUp" >> /\ ~res.ret
  /\ ~isTextblock(selected.type)
  /\ joinPoint(prev.doc, prev.selection.anchor, -1) # -1

\* splitBlock was called with dispatch on a text selection inside a
\* textblock that is not isolating.
prevFrom == resolve(prev.doc, selFrom(prev.selection))
prevTo   == resolve(prev.doc, selTo(prev.selection))
SplitCase ==
  /\ InCall /\ cmd = << "splitBlock" >>
  /\ prev.selection.kind = "text"
  /\ prevFrom.depth >= 1
  /\ startAt(prevFrom, prevFrom.depth) = startAt(prevTo, prevTo.depth)
  /\ ~isolating(parentOf(prevFrom).type)
  /\ dispatch

\* The textblock that is split, the node it is in, its index there, the
\* inline content on the two sides of the selection, and the default type
\* after it.
splitBlk   == parentOf(prevFrom)
splitIn    == nodeAt(prevFrom, prevFrom.depth - 1)
splitIndex == indexAt(prevFrom, prevFrom.depth - 1)
splitLeft  == SubSeq(splitBlk.content, 1, parentOffset(prevFrom))
splitRight == SubSeq(splitBlk.content, parentOffset(prevTo) + 1, Len(splitBlk.content))
splitDeflt == defaultContentType(splitIn, splitIndex + 1)
splitAtEnd   == parentOffset(prevTo) = Len(splitBlk.content)
splitAtStart == parentOffset(prevFrom) = 0

\* The node the textblock was in, after the call, and whether it has one
\* child more.
splitInAfter == nodeAt(resolve(state.doc, selFrom(prev.selection)), prevFrom.depth - 1)
WasSplit == childCount(splitInAfter) = childCount(splitIn) + 1

\* A second block of the original type is allowed right after the first.
secondOriginalAllowed ==
  canReplaceWith(splitIn, splitIndex + 1, splitIndex + 1, splitBlk.type)

defaultFirstAllowed ==
  canReplace(splitIn, splitIndex, splitIndex + 1,
             << create(splitDeflt, << >>), splitBlk >>)

LeftoverRetyped ==
  /\ SplitCase /\ splitAtStart /\ ~splitAtEnd /\ splitBlk.type # splitDeflt
  /\ defaultFirstAllowed
  /\ WasSplit

\* liftEmptyBlock was called.
LiftEmptyCalled == InCall /\ cmd = << "liftEmptyBlock" >>

\* The selection was a cursor in a textblock with no content.
InEmptyTextblock ==
  /\ hasCursor(prev.selection)
  /\ parentOf(prevCursor).content = << >>

\* The parent of the empty block, the node that parent is in, and the
\* parent's children before the empty block and from it on.
emptyIn     == nodeAt(prevCursor, blockDepth)
emptyInPos  == resolve(prev.doc, beforeAt(prevCursor, prevCursor.depth))
emptyAbove  == nodeAt(prevCursor, blockDepth - 1)
headPart    == SubSeq(emptyIn.content, 1, blockIndex)
tailPart    == SubSeq(emptyIn.content, blockIndex + 1, Len(emptyIn.content))

\* The empty block is nested, is not the last child of its parent, and the
\* parent can be split directly before it: both parts are valid content of
\* the parent's type and a second node of that type is allowed after it.
ParentSplits ==
  /\ prevCursor.depth > 1
  /\ blockIndex + 1 < childCount(emptyIn)
  /\ ~isolating(emptyIn.type)
  /\ validContent(emptyIn.type, headPart)
  /\ validContent(emptyIn.type, tailPart)
  /\ canReplaceWith(emptyAbove, indexAt(prevCursor, blockDepth - 1) + 1,
                    indexAt(prevCursor, blockDepth - 1) + 1, emptyIn.type)

\* The document with the parent of the empty block split before it.
ParentSplitDoc ==
  LET i == indexAt(prevCursor, blockDepth - 1)
  IN  ReplacedAt(emptyInPos, 0, blockDepth - 1,
        copy(emptyAbove,
             SubSeq(emptyAbove.content, 1, i)
             \o << copy(emptyIn, headPart), copy(emptyIn, tailPart) >>
             \o SubSeq(emptyAbove.content, i + 2, Len(emptyAbove.content))))

\* C20: liftEmptyBlock returns false and changes nothing unless the
\* selection is a cursor in an empty textblock. For such a cursor whose
\* block is nested, is not the last child and whose parent can be split
\* before it, it returns true and with dispatch splits the parent there, the
\* empty block starting the second part. In every other case it returns
\* true exactly when the block has a lift target, and with dispatch the
\* empty block then is out of its parent, at the target depth, with the
\* inline content of the document kept.
LiftEmptyBlockCases ==
  LiftEmptyCalled =>
    IF ~InEmptyTextblock THEN ~res.ret /\ res.trs = << >> /\ state = prev
    ELSE IF ParentSplits
    THEN /\ res.ret
         /\ dispatch => state.doc = ParentSplitDoc
         /\ ~dispatch => state = prev
    ELSE /\ res.ret = (cursorLiftTarget # -1)
         /\ ~res.ret => (res.trs = << >> /\ state = prev)
         /\ (res.ret /\ dispatch) =>
              LET cursor == resolve(state.doc, state.selection.head)
              IN  /\ hasCursor(state.selection)
                  /\ parentOf(cursor) = parentOf(prevCursor)
                  /\ cursor.depth = cursorLiftTarget + 1
                  /\ cursor.depth < prevCursor.depth
                  /\ inlineOf(state.doc) = inlineOf(prev.doc)

\* The parent of an empty block with a sibling after it was split.
ParentWasSplit ==
  /\ LiftEmptyCalled /\ InEmptyTextblock /\ ParentSplits /\ dispatch
  /\ state.doc # prev.doc

\* An empty block that is not the last child was lifted because its parent
\* cannot be split before it.
LiftedNotSplit ==
  /\ LiftEmptyCalled /\ InEmptyTextblock /\ ~ParentSplits /\ dispatch /\ res.ret
  /\ prevCursor.depth > 1
  /\ blockIndex + 1 < childCount(emptyIn)

\* An empty block without a lift target was left alone.
EmptyNotLifted ==
  /\ LiftEmptyCalled /\ InEmptyTextblock /\ ~ParentSplits /\ ~res.ret
  /\ prevCursor.depth > 1

\* The text selection a command was called on spans several textblocks.
SpansTextblocks ==
  /\ prev.selection.kind = "text"
  /\ startAt(prevFrom, prevFrom.depth) # startAt(prevTo, prevTo.depth)

\* The textblocks a spanning selection touches are children first..last of
\* one node; these are the ones setBlockType(t) can change: not yet of type
\* t, and replaceable by a node of type t in their parent.
touchedIn    == nodeAt(prevFrom, prevFrom.depth - 1)
touchedFirst == indexAt(prevFrom, prevFrom.depth - 1)
touchedLast  == indexAt(prevTo, prevTo.depth - 1)
changeable(t) ==
  { i \in touchedFirst..touchedLast :
      /\ isTextblock(child(touchedIn, i).type)
      /\ child(touchedIn, i).type # t
      /\ canReplaceWith(touchedIn, i, i + 1, t) }

\* The node touchedIn after the call.
touchedInAfter == nodeAt(resolve(state.doc, selFrom(prev.selection)), prevFrom.depth - 1)

\* C21: for a text selection that spans several textblocks, setBlockType(t)
\* returns true exactly when some touched textblock can be changed, and with
\* dispatch every touched textblock that can be changed has type t
\* afterwards, while the other children of the parent are as they were.
SetBlockTypeOnAll ==
  (InCall /\ Len(cmd) = 2 /\ cmd[1] = "setBlockType" /\ SpansTextblocks) =>
    /\ res.ret = (changeable(cmd[2]) # {})
    /\ (res.ret /\ dispatch) =>
         /\ childCount(touchedInAfter) = childCount(touchedIn)
         /\ \A i \in 0..(childCount(touchedIn) - 1) :
              IF i \in changeable(cmd[2])
              THEN child(touchedInAfter, i).type = cmd[2]
              ELSE child(touchedInAfter, i) = child(touchedIn, i)

\* What setBlockType does on such a selection: it returns false and
\* dispatches nothing.
SetBlockTypeRefusesSpan ==
  (InCall /\ Len(cmd) = 2 /\ cmd[1] = "setBlockType" /\ SpansTextblocks) =>
    (~res.ret /\ res.trs = << >> /\ state = prev)

\* toggleMark(m) was called with dispatch on a selection that is not empty
\* and returned true.
ToggleRangeCase ==
  /\ InCall /\ Len(cmd) = 2 /\ cmd[1] = "toggleMark"
  /\ ~selEmpty(prev.selection)
  /\ res.ret /\ dispatch

\* The inline nodes of a node with the positions they start at, in document
\* order; pos is the position before the node.
RECURSIVE inlineAt(_, _)
RECURSIVE inlineAtAll(_, _)
inlineAt(node, pos) ==
  IF isLeaf(node.type) THEN (IF isBlock(node.type) THEN << >> ELSE << [node |-> node, pos |-> pos] >>)
  ELSE inlineAtAll(node.content, pos + 1)
inlineAtAll(f, pos) ==
  IF f = << >> THEN << >> ELSE inlineAt(Head(f), pos) \o inlineAtAll(Tail(f), pos + nodeSize(Head(f)))

\* The selected range has the mark somewhere.
inRange(pos) == selFrom(prev.selection) <= pos /\ pos < selTo(prev.selection)
rangeHas(m) ==
  \E i \in DOMAIN inlineAtAll(prev.doc.content, 0) :
    LET e == inlineAtAll(prev.doc.content, 0)[i] IN inRange(e.pos) /\ m \in e.node.marks

\* The node with the mark m removed from (add FALSE) or added to (add TRUE)
\* the inline nodes in the selected range; a node whose parent does not
\* allow the mark does not get it.
RECURSIVE remarked(_, _, _, _, _)
RECURSIVE remarkedAll(_, _, _, _, _)
remarked(node, pos, ptype, m, add) ==
  IF isLeaf(node.type)
  THEN IF isBlock(node.type) \/ ~inRange(pos) THEN node
       ELSE IF ~add THEN [node EXCEPT !.marks = @ \ { m }]
       ELSE IF allowsMarkType(ptype, m) THEN [node EXCEPT !.marks = @ \cup { m }]
       ELSE node
  ELSE copy(node, remarkedAll(node.content, pos + 1, node.type, m, add))
remarkedAll(f, pos, ptype, m, add) ==
  IF f = << >> THEN << >>
  ELSE << remarked(Head(f), pos, ptype, m, add) >>
       \o remarkedAll(Tail(f), pos + nodeSize(Head(f)), ptype, m, add)

MarkRemovedFromRange ==
  /\ ToggleRangeCase /\ rangeHas(cmd[2])
  /\ \E i \in DOMAIN inlineAtAll(prev.doc.content, 0) :
       LET e == inlineAtAll(prev.doc.content, 0)[i] IN inRange(e.pos) /\ cmd[2] \notin e.node.marks
  /\ state.doc # prev.doc

ToggleCursorCase ==
  /\ InCall /\ Len(cmd) = 2 /\ cmd[1] = "toggleMark"
  /\ hasCursor(prev.selection)
  /\ res.ret /\ dispatch

\* The marks active in a state with a cursor: the stored marks, or the marks
\* at the cursor when none are stored.
activeMarks(st) ==
  IF st.storedMarks.set THEN st.storedMarks.marks
  ELSE marksAt(resolve(st.doc, st.selection.head))

\* A set of marks with the mark m toggled.
toggled(ms, m) == IF m \in ms THEN ms \ { m } ELSE ms \cup { m }

\* The state after one more toggleMark(m) with dispatch.
toggledAgain(st, m) == dispatched(st, toggleMark(m, st, TRUE).trs)

\* C23: at a cursor toggleMark(m) leaves document and selection alone and
\* stores the active marks with m added if it was absent and removed if it
\* was present; the same holds for a further toggle on the state with
\* stored marks; and from a cursor with no active marks the calls
\* toggle(em), toggle(strong), toggle(em) store 1, 2 and 1 marks.
ToggleStoredMarks ==
  ToggleCursorCase =>
    /\ state.doc = prev.doc /\ state.selection = prev.selection
    /\ state.storedMarks = StoredMarks(toggled(activeMarks(prev), cmd[2]))
    /\ \A m \in { "em", "strong" } :
         /\ toggledAgain(state, m).doc = prev.doc
         /\ toggledAgain(state, m).selection = prev.selection
         /\ toggledAgain(state, m).storedMarks = StoredMarks(toggled(state.storedMarks.marks, m))
    /\ (activeMarks(prev) = {} /\ cmd[2] = "em") =>
         /\ Cardinality(state.storedMarks.marks) = 1
         /\ Cardinality(toggledAgain(state, "strong").storedMarks.marks) = 2
         /\ Cardinality(toggledAgain(toggledAgain(state, "strong"), "em").storedMarks.marks) = 1

\* toggle(em) was called at a cursor with no active marks.
PendingMarkToggled ==
  /\ ToggleCursorCase /\ activeMarks(prev) = {} /\ cmd[2] = "em"
  /\ state.storedMarks.set

\* toggleMark at a cursor inside marked text removed the mark from the
\* stored set.
MarkAtCursorUnstored ==
  /\ ToggleCursorCase /\ cmd[2] \in activeMarks(prev)

\* selectParentNode was called.
SelectParentCalled == InCall /\ cmd = << "selectParentNode" >>

\* The selection of a state lies inside one of the children of the document.
insideTopLevel(st) ==
  LET rf == resolve(st.doc, selFrom(st.selection))
  IN  /\ rf.depth >= 1
      /\ startAt(rf, 1) <= selTo(st.selection)
      /\ selTo(st.selection) <= endAt(rf, 1)

\* The depths at which the node around the start of the selection also
\* holds its end.
enclosingDepths ==
  { d \in 1..prevFrom.depth :
      startAt(prevFrom, d) <= selTo(prev.selection) /\ selTo(prev.selection) <= endAt(prevFrom, d) }

\* The number of times selectParentNode succeeds when repeated from a state.
RECURSIVE climbs(_)
climbs(st) ==
  IF ~selectParentNode(st, TRUE).ret THEN 0
  ELSE 1 + climbs(dispatched(st, selectParentNode(st, TRUE).trs))

\* The state in which the repetition ends.
RECURSIVE climbed(_)
climbed(st) ==
  IF ~selectParentNode(st, TRUE).ret THEN st
  ELSE climbed(dispatched(st, selectParentNode(st, TRUE).trs))

\* C24: selectParentNode returns false, changing nothing, exactly when the
\* selection is not inside one child of the document. Otherwise, with
\* dispatch, the document is unchanged and the selection is the node
\* selection of the deepest node around the start of the old selection that
\* also holds its end; it begins before and ends after the old selection
\* and is never the document. Repeated, the command fails after at most as
\* many calls as the start of the selection is deep, on a selection of the
\* same document that is not inside one child of the document.
SelectParentClimbs ==
  SelectParentCalled =>
    /\ res.ret = insideTopLevel(prev)
    /\ ~res.ret => (res.trs = << >> /\ state = prev)
    /\ (res.ret /\ ~dispatch) => state = prev
    /\ (res.ret /\ dispatch) =>
         /\ state.doc = prev.doc
         /\ state.selection.kind = "node"
         /\ \E d \in enclosingDepths :
              /\ \A e \in enclosingDepths : e <= d
              /\ state.selection.anchor = beforeAt(prevFrom, d)
              /\ nodeAfter(resolve(state.doc, state.selection.anchor)) = nodeAt(prevFrom, d)
         /\ selFrom(state.selection) < selFrom(prev.selection)
         /\ selTo(state.selection) > selTo(prev.selection)
    /\ climbs(prev) <= prevFrom.depth
    /\ ~insideTopLevel(climbed(prev))
    /\ climbed(prev).doc = prev.doc

\* selectParentNode went up from a selected node that is itself nested.
ClimbedFromNode ==
  /\ SelectParentCalled /\ res.ret /\ dispatch
  /\ prev.selection.kind = "node"
  /\ climbs(prev) >= 2

\* selectParentNode refused a selection that spans children of the document.
SpanRefused ==
  /\ SelectParentCalled /\ ~res.ret
  /\ prev.selection.kind = "text"
  /\ SpansTextblocks

\* autoJoin was called around a command that handed a transaction on.
AutoJoinCalled == InCall /\ cmd[1] = "autoJoin" /\ dispatch /\ res.ret /\ Len(res.trs) = 1

\* The transaction that the wrapped command passes to its dispatch.
wrappedTr == run(Tail(cmd), prev, TRUE, NoView).trs[1]

\* The ranges of the wrapped transaction's document that its steps touched.
touched == changedRanges(wrappedTr.maps, 1, << >>)

inTouched(pos) ==
  \E i \in 1..(Len(touched) \div 2) : touched[2 * i - 1] <= pos /\ pos <= touched[2 * i]

\* A position between two siblings of the same type, a joinable one, that
\* canJoin permits to join.
joinableBoundary(doc, pos) ==
  LET rp == resolve(doc, pos)
  IN  /\ nodeBefore(rp) # NoNode /\ nodeAfter(rp) # NoNode
      /\ nodeBefore(rp).type = nodeAfter(rp).type
      /\ nodeBefore(rp).type \in JoinTypes
      /\ canJoin(doc, pos)

boundariesOf(doc) == { pos \in 1..(nodeSize(doc) - 3) : joinableBoundary(doc, pos) }

touchedBoundaries == { pos \in boundariesOf(wrappedTr.doc) : inTouched(pos) }

\* The document with the given boundaries joined.
RECURSIVE joinedAt(_, _)
joinedAt(doc, points) ==
  IF points = {} THEN doc
  ELSE LET pos == CHOOSE q \in points : \A r \in points : r <= q
       IN  joinedAt(applyStep(doc, ReplaceStep(pos - 1, pos + 1, SliceEmpty, TRUE)),
                    points \ {pos})

\* Where a position of the wrapped transaction's document is after the joins.
afterJoins(pos) == pos - 2 * Cardinality({ q \in touchedBoundaries : q < pos })

\* C25: with dispatch, the transaction that autoJoin hands on is the wrapped
\* command's transaction followed by one join for every boundary inside a
\* range touched by its steps that separates two siblings of the same
\* joinable type and that canJoin permits; every such boundary outside the
\* touched ranges is still a boundary of the resulting document; and a
\* transaction that carries metadata is handed on as it is.
AutoJoinJoinsTouched ==
  AutoJoinCalled =>
    /\ res.trs[1].doc = joinedAt(wrappedTr.doc, touchedBoundaries)
    /\ Len(res.trs[1].steps) = Len(wrappedTr.steps) + Cardinality(touchedBoundaries)
    /\ SubSeq(res.trs[1].steps, 1, Len(wrappedTr.steps)) = wrappedTr.steps
    /\ \A pos \in boundariesOf(wrappedTr.doc) \ touchedBoundaries :
         joinableBoundary(res.trs[1].doc, afterJoins(pos))
    /\ wrapDispatchForJoin(setMeta(wrappedTr, "addToHistory"), JoinTypes)
         = setMeta(wrappedTr, "addToHistory")

\* autoJoin joined the lists on both sides of the change.
JoinedOnBothSides ==
  /\ AutoJoinCalled
  /\ Cardinality(touchedBoundaries) = 2

\* autoJoin left two lists apart that the change did not touch.
UntouchedBoundaryKept ==
  /\ AutoJoinCalled
  /\ Len(wrappedTr.steps) > 0
  /\ boundariesOf(wrappedTr.doc) \ touchedBoundaries # {}

DeleteSelectionCalled == InCall /\ cmd = << "deleteSelection" >>

\* The selection before the call was a non-empty text selection inside one
\* textblock.
TextInOneBlock ==
  /\ prev.selection.kind = "text" /\ ~selEmpty(prev.selection)
  /\ isTextblock(parentOf(prevFrom).type)
  /\ startAt(prevFrom, prevFrom.depth) = startAt(prevTo, prevTo.depth)

\* The marks of the first inline node of the deleted range.
marksOfDeleted == child(parentOf(prevFrom), indexAt(prevFrom, prevFrom.depth)).marks

\* The content of the textblock around the old selection without the
\* selected part.
withoutSelected ==
  LET c == parentOf(prevFrom).content
  IN  SubSeq(c, 1, parentOffset(prevFrom)) \o SubSeq(c, parentOffset(prevTo) + 1, Len(c))

plainText(node) ==
  \A i \in DOMAIN node.content : node.content[i].type = "text" /\ node.content[i].marks = {}

\* joinBackward was called, with dispatch, with the cursor at the start of a
\* textblock whose preceding sibling is a textblock of the same type, both
\* with nothing but unmarked text.
RoundTripCase ==
  /\ InCall /\ cmd = << "joinBackward" >> /\ dispatch
  /\ AtStartOfTextblock
  /\ blockIndex > 0
  /\ isTextblock(siblingBefore.type)
  /\ siblingBefore.type = parentOf(prevCursor).type
  /\ plainText(siblingBefore) /\ plainText(parentOf(prevCursor))

\* The state after splitBlock in the state that joinBackward left.
resplit == dispatched(state, splitBlock(state, TRUE).trs)

\* The type that the node around the two textblocks gives to a new child.
roundTripDefault ==
  defaultContentType(nodeAt(prevCursor, blockDepth), blockIndex + 1)

\* C26: joinBackward at the start of the second of two sibling textblocks of
\* one type that hold nothing but unmarked text, both of them some, or of
\* the type that their parent gives to a new child, leaves the cursor at the
\* end of the text of the first, and splitBlock there gives the document
\* and the selection back.
JoinSplitRoundTrip ==
  (/\ RoundTripCase
   /\ \/ siblingBefore.content # << >> /\ parentOf(prevCursor).content # << >>
      \/ siblingBefore.type = roundTripDefault) =>
    /\ res.ret
    /\ hasCursor(state.selection)
    /\ state.selection.head = prev.selection.head - 2
    /\ splitBlock(state, TRUE).ret
    /\ resplit.doc = prev.doc
    /\ resplit.selection = prev.selection

\* The same for all such textblocks, empty ones included.
JoinSplitRoundTripAny ==
  RoundTripCase => (res.ret /\ resplit.doc = prev.doc)

\* Two headings were joined and split again.
HeadingsRejoined ==
  /\ RoundTripCase /\ res.ret
  /\ siblingBefore.type = "heading"
  /\ siblingBefore.content # << >> /\ parentOf(prevCursor).content # << >>
  /\ state.doc # prev.doc
  /\ resplit.doc = prev.doc

\* joinBackward or joinForward was called, with dispatch, with the cursor in
\* an empty textblock at a cut where no structural merge applies and whose
\* far side is a selectable node.
FallbackCase ==
  /\ InCall /\ cmd \in { << "joinBackward" >>, << "joinForward" >> }
  /\ dispatch
  /\ hasCursor(prev.selection)
  /\ view.present => view.endOfTextblock
  /\ parentOf(prevCursor).content = << >>
  /\ joinCut # -1
  /\ \/ ~mergeApplies
     \/ cmd = << "joinBackward" >> /\ isolating(neighbour.type)
  /\ isSelectable(neighbour)

\* The document the command was called on without the cursor's textblock.
withoutCursorBlock ==
  LET around == nodeAt(prevCursor, blockDepth)
  IN  ReplacedAt(prevCursor, 0, blockDepth,
        copy(around, SubSeq(around.content, 1, blockIndex)
                     \o SubSeq(around.content, blockIndex + 2, Len(around.content))))

\* Where the neighbour starts once the cursor's textblock is gone.
neighbourPos ==
  IF cmd = << "joinBackward" >> THEN joinCut - nodeSize(neighbour) ELSE joinCut - 2

\* The parent of the cursor's empty textblock may lose it.
emptyRemovable ==
  canReplace(nodeAt(prevCursor, blockDepth), blockIndex, blockIndex + 1, << >>)

\* C29: where the merge fails, the cursor's textblock is empty and the node
\* on the far side of the cut is selectable, joinBackward and joinForward
\* return true and dispatch a transaction after which the document is the
\* old one without the cursor's textblock and the selection is the node
\* selection of that neighbour, at the position where it now starts.
FallbackDeletesEmpty ==
  FallbackCase =>
    /\ res.ret
    /\ state.doc = withoutCursorBlock
    /\ state.selection.kind = "node"
    /\ state.selection.anchor = neighbourPos
    /\ nodeAfter(resolve(state.doc, state.selection.anchor)) = neighbour

\* The same where the parent of the empty textblock may lose it.
FallbackDeletesRemovable ==
  (FallbackCase /\ emptyRemovable) =>
    /\ res.ret
    /\ state.doc = withoutCursorBlock
    /\ state.selection.kind = "node"
    /\ state.selection.anchor = neighbourPos
    /\ nodeAfter(resolve(state.doc, state.selection.anchor)) = neighbour

\* The fallback removed an empty textblock and selected the node before it.
EmptyRemovedBackward ==
  /\ FallbackCase /\ emptyRemovable /\ cmd = << "joinBackward" >>
  /\ state.doc = withoutCursorBlock

\* The fallback removed an empty textblock and selected the node after it.
EmptyRemovedForward ==
  /\ FallbackCase /\ emptyRemovable /\ cmd = << "joinForward" >>
  /\ state.doc = withoutCursorBlock

\* splitBlock was called on a selection that is not the node selection of a
\* block.
SplitAnyCase ==
  /\ InCall /\ cmd = << "splitBlock" >>
  /\ ~(prev.selection.kind = "node" /\ isBlock(selNode(prev).type))

\* The transaction with which splitBlock starts: the deletion of a text
\* selection, nothing for another selection.
splitStart ==
  IF prev.selection.kind = "text" THEN trDeleteSelection(newTr(prev)) ELSE newTr(prev)

\* The type that the node around the selection's start gives a new child
\* after it, "null" at the top.
splitDefault ==
  IF prevFrom.depth = 0 THEN "null"
  ELSE defaultContentType(nodeAt(prevFrom, -1), indexAfterAt(prevFrom, -1))

\* canSplit fails at the start of the selection both for the type of the
\* block there and for the default type.
CannotSplit ==
  /\ ~canSplit(splitStart.doc, selFrom(prev.selection), "none")
  /\ ~canSplit(splitStart.doc, selFrom(prev.selection), splitDefault)

\* C30: on every selection that is not the node selection of a block,
\* splitBlock returns true and, given dispatch, dispatches one transaction.
\* Where canSplit fails for the original and for the default type, the
\* steps of that transaction are those of the deletion of a text selection
\* and no more, so that with a cursor the document and the selection stay
\* as they were.
SplitReportsSuccess ==
  SplitAnyCase =>
    /\ res.ret
    /\ Len(res.trs) = (IF dispatch THEN 1 ELSE 0)
    /\ (dispatch /\ CannotSplit) =>
         /\ res.trs[1].steps = splitStart.steps
         /\ state.doc = splitStart.doc
         /\ selEmpty(prev.selection) =>
              (state.doc = prev.doc /\ state.selection = prev.selection)

\* splitBlock returned true for a cursor in a block that cannot be split.
UnsplittableCursor ==
  /\ SplitAnyCase /\ dispatch /\ CannotSplit /\ res.ret
  /\ hasCursor(prev.selection)
  /\ state.doc = prev.doc

\* splitBlock deleted the selected text of a block that cannot be split.
UnsplittableDeleted ==
  /\ SplitAnyCase /\ dispatch /\ CannotSplit /\ res.ret
  /\ prev.selection.kind = "text"
  /\ state.doc # prev.doc

\* The inline content of the cursor's textblock and the cursor's offset in
\* it, before the call.
wordContent == parentOf(prevCursor).content
wordOffset == parentOffset(prevCursor)

\* The i-th inline node is a character, and its category.
isCharAt(i) == i \in 1..Len(wordContent) /\ wordContent[i].type = "text"
catAt(i) == charCategory(wordContent[i].ch)

\* The offset at which the longest run of characters of category c that
\* ends at offset k starts.
runStart(k, c) ==
  CHOOSE s \in 0..k :
    /\ \A i \in (s + 1)..k : isCharAt(i) /\ catAt(i) = c
    /\ s > 0 => ~(isCharAt(s) /\ catAt(s) = c)

\* The offset from which the word before the cursor is deleted: the start of
\* the run of the category of the character before the cursor, or, when
\* that character is a blank, of the run that ends before that blank.
wordFrom ==
  IF catAt(wordOffset) # "space" THEN runStart(wordOffset, catAt(wordOffset))
  ELSE IF isCharAt(wordOffset - 1) THEN runStart(wordOffset - 1, catAt(wordOffset - 1))
  ELSE wordOffset - 1

\* C28: deleteWordBefore returns false unless the selection is empty and the
\* cursor is off the start of its textblock, and changes nothing unless it
\* is asked to apply. Applied with a character before the cursor, it deletes
\* from the start of the longest run of characters of one category that ends
\* at the cursor, with one blank directly before the cursor skipped first, up
\* to the cursor, where the cursor then stands; other blocks are left alone.
\* moveBackward by word gives the start of that range, never gives a
\* position outside the textblock or after the position it is given, and
\* raises a RangeError for a unit other than "char" and "word".
WordWiseDeletion ==
  /\ (InCall /\ cmd = << "deleteWordBefore" >>) =>
       /\ res.ret = (selEmpty(prev.selection) /\ wordOffset > 0)
       /\ (~res.ret \/ ~dispatch) => (state = prev /\ res.trs = << >>)
       /\ (res.ret /\ dispatch) =>
            /\ Len(state.doc.content) = Len(prev.doc.content)
            /\ state.doc.content[1] = prev.doc.content[1]
            /\ hasCursor(state.selection)
       /\ (res.ret /\ dispatch /\ isCharAt(wordOffset)) =>
            /\ state.doc.content[2].content
                 = SubSeq(wordContent, 1, wordFrom)
                   \o SubSeq(wordContent, wordOffset + 1, Len(wordContent))
            /\ state.selection.head = WordStart + wordFrom
  /\ (InCall /\ cmd[1] = "moveBackward") =>
       /\ res.ret.raised = (cmd[2] \notin { "char", "word" })
       /\ ~res.ret.raised =>
            /\ res.ret.pos >= WordStart
            /\ res.ret.pos <= prev.selection.head
       /\ (cmd[2] = "word" /\ isCharAt(wordOffset)) => res.ret.pos = WordStart + wordFrom

\* deleteWordBefore deleted a blank and the word before it.
BlankAndWordDeleted ==
  /\ InCall /\ cmd = << "deleteWordBefore" >> /\ dispatch /\ res.ret
  /\ isCharAt(wordOffset) /\ catAt(wordOffset) = "space"
  /\ wordFrom < wordOffset - 1
  /\ catAt(wordOffset - 1) = "word"
  /\ state.doc # prev.doc

\* moveBackward raised a RangeError.
UnitRefused ==
  /\ InCall /\ cmd[1] = "moveBackward"
  /\ res.ret.raised

====
